---- MODULE Spec2Model ----
(***************************************************************************)
(* A model of pg_tps_optimizer: the rolling window of TestResults and its  *)
(* stability verdict (threader/samples.rs), the consumer and its workers   *)
(* (threader/consumer.rs, threader/worker.rs), and the controller that     *)
(* scales the fleet up, waits for a stable level and cancels the fleet;    *)
(* then one worker's loop in detail, the schedule of levels, the bucket of *)
(* a sample, the window as_results builds, and the merging of samples;     *)
(* then ParallelSample and ParallelSamples as data with their iterator,    *)
(* the channel of a consumer, the server sampler (pg_sampler) and the      *)
(* Fibonacci iterator in the width of its fields (fibonacci).              *)
(*                                                                         *)
(* Every part has a specification of its own (SpecResults, SpecConsumer,   *)
(* SpecWait, SpecFleet, SpecWorker, ...); the variables of the other parts *)
(* stay at their initial values under it.                                  *)
(***************************************************************************)
EXTENDS Integers, Sequences, FiniteSets, Bags, TLC

VARIABLES
    \* ---- TestResults (samples.rs) ----
    testresults,    \* the TestResults struct: [min, max, results]
    spread,         \* the spread handed to verify
    verified,       \* verify has been called on the window as it is now
    verdict,        \* what that call returned: None or Some(TestResult)
    \* ---- one Consumer called directly (consumer.rs) ----
    consumer,       \* the Consumer struct: [id, num_threads, threads]
    call,           \* the last Consumer::scaleup call and what it did
    \* ---- the controller's fleet of consumers ----
    threader,       \* the Threader: [num_threads, max_threads, consumers]
    scaled,         \* the last scaleup(target) of the controller
    \* ---- wait_stable ----
    now,            \* the clock, in timeslices of 200 ms
    ws,             \* the call of wait_stable: its arguments and locals
    \* ---- the running fleet: controller, consumer threads, workers ----
    main_pc,        \* where the controller is: "run" or "finished"
    fleet,          \* the Threader the controller drives
    done,           \* the cancellation flag the Threader holds and hands out
    writes,         \* every write to that flag: who wrote it and what
    cthreads,       \* the consumer threads, by consumer id + 1
    workers,        \* the worker threads, by worker id
    chan,           \* messages queued from the workers to each consumer
    upstream,       \* messages queued from the consumers to the controller
    \* ---- one worker's loop (worker.rs, threads.rs) ----
    wk,             \* the worker: where it is, its flavor, its tps estimate
    it,             \* its last loop iteration: what ran, what failed, what was sent
    rx_open,        \* the receiving end of the worker's channel still exists
    \* ---- the controller's schedule of levels ----
    sched,          \* the range, the Fibonacci iterator and the calls made
    \* ---- the bucket of a sample (samples.rs) ----
    stamps,         \* two samples, the second started no earlier, and their buckets
    \* ---- the window as_results builds (samples.rs) ----
    clock,          \* current_timeslice()
    collected,      \* a ParallelSamples
    built,          \* the last as_results call on it and what it gave
    \* ---- merging on the way to the controller (samples.rs) ----
    emitted,        \* per consumer, what its workers sent and it has not received yet
    inbound,        \* what the consumers sent upstream and the controller has not received yet
    accumulated,    \* the controller's accumulator
    history,        \* the samples the workers sent so far, as a bag
    \* ---- ParallelSample and ParallelSamples as data (samples.rs) ----
    pair,           \* the last ParallelSample::add call and what it gave
    coll,           \* a ParallelSamples: its map and the state of its iterator
    donor,          \* another ParallelSamples, to append to the first
    seen,           \* the samples that went into each of the two, as bags
    yielded,        \* what next() gave since the collection was last built on
    lastop,         \* the last operation on the collection
    \* ---- the channel from the workers to their consumer ----
    wire,           \* the messages sent and not yet received, oldest first
    numbered,       \* how many samples each worker has sent
    received,       \* the messages the consumer received, oldest first
    \* ---- the server sampler (pg_sampler) ----
    pgs,            \* the PgSampler: [previous, latest]
    position,       \* the server's log-sequence position
    queries,        \* the sample queries run: the parameter bound, the row returned
    \* ---- the Fibonacci iterator in full width (fibonacci) ----
    fibo,           \* the iterator: [curr, next], and whether it panicked
    items,          \* the values it yielded
    \* ---- the command line and the environment (cli, generic) ----
    params,         \* a value of the command line, the environment, a default
    answer,         \* the last call on them and what it returned
    \* ---- the connection string (dsn) ----
    dsn,            \* the Dsn: [kv, ssl_mode], and the set_value calls made on it
    shown,          \* the last call that read it and what it returned
    \* ---- the loop of one consumer thread, receive by receive (consumer.rs) ----
    backlog,        \* the messages in its channel, oldest first, each the bucket it is of
    rnd,            \* the thread: where it is, its accumulator, the receives of the round
    forward,        \* the message it sent upstream at the end of the last round, if any
    \* ---- a consumer thread between its workers and the controller ----
    held,           \* the thread: where it is, the receives of the round, its accumulator
    \* ---- the table of the workers (worker.rs) ----
    tbl,            \* the table pg_tps_optimizer: whether it exists, and its rows as a bag
    crew,           \* the workers spawned, by id: where each is in initialize and after
    \* ---- the samples on their way while the controller goes from level to level ----
    lvl,            \* the controller: where it is, its level, its accumulator, its window
    beat,           \* current_timeslice()
    route           \* the samples under way: in the workers, the consumer's channel,
                    \* the consumer's accumulator, the channel to the controller

varsResults == <<testresults, spread, verified, verdict>>
varsConsumer == <<consumer, call>>
varsScale == <<threader, scaled>>
varsWait == <<now, ws>>
varsFleet == <<main_pc, fleet, done, writes, cthreads, workers, chan, upstream>>
varsWorker == <<wk, it, rx_open>>
varsSchedule == <<sched>>
varsBucket == <<stamps>>
varsWindow == <<clock, collected, built>>
varsMerge == <<emitted, inbound, accumulated, history>>
varsCollection == <<pair, coll, donor, seen, yielded, lastop>>
varsChannel == <<wire, numbered, received>>
varsSampler == <<pgs, position, queries>>
varsFibonacci == <<fibo, items>>
varsParams == <<params, answer>>
varsDsn == <<dsn, shown>>
varsRound == <<backlog, rnd, forward>>
varsFanIn == <<held>>
varsTable == <<tbl, crew>>
varsLevel == <<lvl, beat, route>>

vars == <<testresults, spread, verified, verdict, consumer, call, threader, scaled,
          now, ws, main_pc, fleet, done, writes, cthreads, workers, chan, upstream,
          wk, it, rx_open, sched, stamps, clock, collected, built,
          emitted, inbound, accumulated, history,
          pair, coll, donor, seen, yielded, lastop, wire, numbered, received,
          pgs, position, queries, fibo, items,
          params, answer, dsn, shown, backlog, rnd, forward, held,
          tbl, crew, lvl, beat, route>>

\* what a specification leaves alone
varsSampling == <<varsWorker, varsSchedule, varsBucket, varsWindow, varsMerge>>
varsControl == <<varsResults, varsConsumer, varsScale, varsWait, varsFleet>>
varsData == <<varsCollection, varsChannel, varsSampler, varsFibonacci>>
varsSetup == <<varsParams, varsDsn>>
varsFlow == <<varsRound, varsFanIn, varsTable, varsLevel>>
othersResults == <<varsConsumer, varsScale, varsWait, varsFleet, varsSampling, varsData, varsSetup, varsFlow>>
othersConsumer == <<varsResults, varsScale, varsWait, varsFleet, varsSampling, varsData, varsSetup, varsFlow>>
othersScale == <<varsResults, varsConsumer, varsWait, varsFleet, varsSampling, varsData, varsSetup, varsFlow>>
othersWait == <<varsResults, varsConsumer, varsScale, varsFleet, varsSampling, varsData, varsSetup, varsFlow>>
othersFleet == <<varsResults, varsConsumer, varsScale, varsWait, varsSampling, varsData, varsSetup, varsFlow>>
othersWorker == <<varsControl, varsSchedule, varsBucket, varsWindow, varsMerge, varsData, varsSetup, varsFlow>>
othersSchedule == <<varsControl, varsWorker, varsBucket, varsWindow, varsMerge, varsData, varsSetup, varsFlow>>
othersBucket == <<varsControl, varsWorker, varsSchedule, varsWindow, varsMerge, varsData, varsSetup, varsFlow>>
othersWindow == <<varsControl, varsWorker, varsSchedule, varsBucket, varsMerge, varsData, varsSetup, varsFlow>>
othersMerge == <<varsControl, varsWorker, varsSchedule, varsBucket, varsWindow, varsData, varsSetup, varsFlow>>
othersCollection == <<varsControl, varsSampling, varsChannel, varsSampler, varsFibonacci, varsSetup, varsFlow>>
othersChannel == <<varsControl, varsSampling, varsCollection, varsSampler, varsFibonacci, varsSetup, varsFlow>>
othersSampler == <<varsControl, varsSampling, varsCollection, varsChannel, varsFibonacci, varsSetup, varsFlow>>
othersFibonacci == <<varsControl, varsSampling, varsCollection, varsChannel, varsSampler, varsSetup, varsFlow>>
othersParams == <<varsControl, varsSampling, varsData, varsDsn, varsFlow>>
othersDsn == <<varsControl, varsSampling, varsData, varsParams, varsFlow>>
othersRound == <<varsControl, varsSampling, varsData, varsSetup, varsFanIn, varsTable,
                 varsLevel>>
othersFanIn == <<varsControl, varsWorker, varsSchedule, varsBucket, varsWindow,
                 varsData, varsSetup, varsRound, varsTable, varsLevel>>
othersTable == <<varsControl, varsSampling, varsData, varsSetup, varsRound, varsFanIn,
                 varsLevel>>
othersLevel == <<varsControl, varsSampling, varsData, varsSetup, varsRound, varsFanIn,
                 varsTable>>

\* the variables of a part at rest, under the specifications of the other parts
IdleResults ==
    /\ testresults = [min |-> 0, max |-> 1, results |-> <<>>]
    /\ spread = 0
    /\ verified = FALSE
    /\ verdict = <<>>

IdleConsumer ==
    /\ consumer = [id |-> 0, num_threads |-> 0, threads |-> <<>>]
    /\ call = [called |-> FALSE]

IdleScale ==
    /\ threader = [num_threads |-> 0, max_threads |-> 1, consumers |-> <<>>]
    /\ scaled = [called |-> FALSE]

IdleWait ==
    /\ now = 0
    /\ ws = [pc |-> "idle"]

IdleFleet ==
    /\ main_pc = "run"
    /\ fleet = [num_threads |-> 0, max_threads |-> 1, consumers |-> <<>>]
    /\ done = FALSE
    /\ writes = <<>>
    /\ cthreads = <<>>
    /\ workers = <<>>
    /\ chan = <<>>
    /\ upstream = 0

IdleWorker ==
    /\ wk = [pc |-> "idle"]
    /\ it = [outcome |-> "none"]
    /\ rx_open = TRUE

IdleSchedule == sched = [pc |-> "idle"]

IdleBucket == stamps = <<>>

IdleWindow ==
    /\ clock = 0
    /\ collected = <<>>
    /\ built = [called |-> FALSE]

IdleMerge ==
    /\ emitted = <<>>
    /\ inbound = <<>>
    /\ accumulated = <<>>
    /\ history = <<>>

IdleSampling ==
    /\ IdleWorker
    /\ IdleSchedule
    /\ IdleBucket
    /\ IdleWindow
    /\ IdleMerge

IdleControl ==
    /\ IdleResults
    /\ IdleConsumer
    /\ IdleScale
    /\ IdleWait
    /\ IdleFleet

IdleCollection ==
    /\ pair = [called |-> FALSE]
    /\ coll = <<>>
    /\ donor = <<>>
    /\ seen = <<>>
    /\ yielded = <<>>
    /\ lastop = [op |-> "none"]

IdleChannel ==
    /\ wire = <<>>
    /\ numbered = <<>>
    /\ received = <<>>

IdleSampler ==
    /\ pgs = [pc |-> "idle"]
    /\ position = 0
    /\ queries = <<>>

IdleFibonacci ==
    /\ fibo = [pc |-> "idle"]
    /\ items = <<>>

IdleData ==
    /\ IdleCollection
    /\ IdleChannel
    /\ IdleSampler
    /\ IdleFibonacci

IdleParams ==
    /\ params = [pc |-> "idle"]
    /\ answer = [op |-> "none"]

IdleDsn ==
    /\ dsn = [pc |-> "idle"]
    /\ shown = [op |-> "none"]

IdleSetup ==
    /\ IdleParams
    /\ IdleDsn

IdleRound ==
    /\ backlog = <<>>
    /\ rnd = [pc |-> "idle"]
    /\ forward = <<>>

IdleFanIn == held = [pc |-> "idle"]

IdleTable ==
    /\ tbl = [exists |-> FALSE, rows |-> <<>>]
    /\ crew = <<>>

IdleLevel ==
    /\ lvl = [pc |-> "idle"]
    /\ beat = 0
    /\ route = <<>>

IdleFlow ==
    /\ IdleRound
    /\ IdleFanIn
    /\ IdleTable
    /\ IdleLevel

(***************************************************************************)
(* Bounds of the model.                                                    *)
(***************************************************************************)
MaxWindow == 3      \* the largest max_len of a TestResults window
MaxMinLen == 3      \* the largest min_len of a TestResults window
MaxExtra == 12      \* the most workers one Consumer::scaleup call is asked for
MaxConsumerId == 2  \* the largest id of the consumer called directly
MaxThreads == 21    \* the largest max_workers of the controller
MaxCount == 3       \* the largest count (min-samples) handed to wait_stable
MaxWait == 3        \* the largest max_wait handed to wait_stable, in timeslices
MaxFleet == 3       \* the largest max_workers of the running fleet
MaxQueue == 2       \* messages counted in a channel; more count as MaxQueue

\* tps of the TestResults fed to a window (transactions per second, whole)
TpsVals == {0, 9, 11}
\* latency of the TestResults fed to a window, in nanoseconds
LatVals == {500, 9000, 12000}
\* the spreads handed to verify (percent)
Spreads == {0, 10, 15}

(***************************************************************************)
(* Option<T>: None is the empty sequence, Some(v) the sequence <<v>>.      *)
(***************************************************************************)
None == <<>>
Some(v) == <<v>>
IsSome(o) == Len(o) = 1
Unwrap(o) == o[1]

(***************************************************************************)
(* f64.  A value is kept exactly: [num, den, root] stands for num/den, or  *)
(* for sqrt(num/den) when root is set (den > 0; num >= 0 under a root).    *)
(* Fractions are kept in lowest terms.                                     *)
(***************************************************************************)
RECURSIVE GCD(_, _)
GCD(a, b) == IF b = 0 THEN a ELSE GCD(b, a % b)

Abs(x) == IF x < 0 THEN -x ELSE x

Frac(n, d) ==
    LET g == GCD(Abs(n), d)
    IN  [num |-> n \div g, den |-> d \div g, root |-> FALSE]

F64(k) == Frac(k, 1)

F64Add(a, b) == Frac(a.num * b.den + b.num * a.den, a.den * b.den)
F64Sub(a, b) == Frac(a.num * b.den - b.num * a.den, a.den * b.den)
\* the product, each numerator reduced against the other denominator first
F64Mul(a, b) ==
    LET g == GCD(Abs(a.num), b.den)
        h == GCD(Abs(b.num), a.den)
    IN  Frac((a.num \div g) * (b.num \div h), (a.den \div h) * (b.den \div g))
\* a / b for a fraction a and a whole b > 0
F64DivInt(a, b) == Frac(a.num, a.den * b)
\* f64::sqrt of a fraction >= 0
F64Sqrt(a) == [num |-> a.num, den |-> a.den, root |-> TRUE]
\* the square of a value, a fraction
F64Square(a) == IF a.root THEN Frac(a.num, a.den) ELSE F64Mul(a, a)
F64IsNeg(a) == ~a.root /\ a.num < 0
F64IsZero(a) == a.num = 0
FracLess(a, b) == a.num * b.den < b.num * a.den
\* a < b
F64Less(a, b) ==
    CASE F64IsNeg(a) /\ ~F64IsNeg(b) -> TRUE
      [] ~F64IsNeg(a) /\ F64IsNeg(b) -> FALSE
      [] F64IsNeg(a) /\ F64IsNeg(b)  -> FracLess(F64Square(b), F64Square(a))
      [] OTHER                       -> FracLess(F64Square(a), F64Square(b))
\* a == b
F64Eq(a, b) == ~F64Less(a, b) /\ ~F64Less(b, a)
\* a / b for b # 0, both without a sign: the quotient of two roots is a root
F64Quot(a, b) ==
    IF a.root \/ b.root
    THEN LET sa == F64Square(a)
             sb == F64Square(b)
         IN  F64Sqrt(Frac(sa.num * sb.den, sa.den * sb.num))
    ELSE Frac(a.num * b.den, a.den * b.num)
\* k * a for a whole k >= 0
F64Scale(k, a) ==
    IF a.root THEN F64Sqrt(Frac(k * k * a.num, a.den)) ELSE Frac(k * a.num, a.den)

\* the largest whole s with s * s <= n
ISqrt(n) == CHOOSE s \in 0..n : s * s <= n /\ n < (s + 1) * (s + 1)
\* (x as i64) for an f64 x >= 0: the whole part
F64AsI64(a) ==
    IF a.root THEN ISqrt(a.num \div a.den) ELSE a.num \div a.den

(***************************************************************************)
(* chrono::Duration, in nanoseconds.                                       *)
(***************************************************************************)
\* Duration / i32 and num_microseconds truncate toward zero
TruncDiv(a, b) == IF a >= 0 THEN a \div b ELSE -((-a) \div b)
num_microseconds(d) == TruncDiv(d, 1000)
DurationMicroseconds(us) == us * 1000

RECURSIVE SeqSum(_)
SeqSum(s) == IF s = <<>> THEN 0 ELSE s[1] + SeqSum(Tail(s))

RECURSIVE F64SeqSum(_)
F64SeqSum(s) == IF s = <<>> THEN F64(0) ELSE F64Add(s[1], F64SeqSum(Tail(s)))

(***************************************************************************)
(* TestResult and TestResults (samples.rs).                                *)
(***************************************************************************)
TestResult(tps, latency) == [tps |-> tps, latency |-> latency]

TestResultsNew(min, max) == [min |-> min, max |-> max, results |-> <<>>]

\* f64::sum of the tps of the window
tot_tps(tr) == F64SeqSum([i \in 1..Len(tr.results) |-> tr.results[i].tps])

avg_latency(tr) ==
    LET num == Len(tr.results)
        tot_lat == SeqSum([i \in 1..num |-> tr.results[i].latency])
    IN  IF num = 0 THEN tot_lat ELSE TruncDiv(tot_lat, num)

mean(tr) ==
    LET count == Len(tr.results)
    IN  IF count > 0
        THEN Some(TestResult(F64DivInt(tot_tps(tr), count), avg_latency(tr)))
        ELSE None

std_deviation_absolute(tr) ==
    LET count == Len(tr.results)
    IN  IF IsSome(mean(tr)) /\ count > 0
        THEN LET results == Unwrap(mean(tr))
                 tps_sq == [i \in 1..count |->
                               LET tps_diff == F64Sub(results.tps, tr.results[i].tps)
                               IN  F64Mul(tps_diff, tps_diff)]
                 tps_variance == F64DivInt(F64SeqSum(tps_sq), count)
                 lat_sq == [i \in 1..count |->
                               LET lat_diff ==
                                     num_microseconds(results.latency - tr.results[i].latency)
                               IN  lat_diff * lat_diff]
                 lat_variance == F64DivInt(F64(SeqSum(lat_sq)), count)
             IN  Some(TestResult(F64Sqrt(tps_variance),
                                 DurationMicroseconds(F64AsI64(F64Sqrt(lat_variance)))))
        ELSE None

\* a percent_of that gives 100 for first = 0
percent_of_whole(first, second) ==
    IF F64IsZero(first) THEN F64(100) ELSE F64Quot(F64Scale(100, second), first)

\* percent_of(first, second): 100 * second / first, and 0 for first = 0
percent_of(first, second) ==
    IF F64IsZero(first) THEN F64(0) ELSE F64Quot(F64Scale(100, second), first)

\* (0.0..spread).contains(&x)
RangeContains(sprd, x) == ~F64Less(x, F64(0)) /\ F64Less(x, F64(sprd))

\* the length check taken one too far
TooFewOffByOne(tr) == Len(tr.results) <= tr.min

\* results.len() < min: too few results for a verdict
TooFew(tr) == Len(tr.results) < tr.min

verify(tr, sprd) ==
    IF TooFew(tr)
    THEN None
    ELSE IF IsSome(std_deviation_absolute(tr)) /\ IsSome(mean(tr))
         THEN LET stdev == Unwrap(std_deviation_absolute(tr))
                  mn == Unwrap(mean(tr))
              IN  IF ~(RangeContains(sprd, percent_of(mn.tps, stdev.tps))
                       /\ RangeContains(sprd,
                             percent_of(F64(num_microseconds(mn.latency)),
                                        F64(num_microseconds(stdev.latency)))))
                  THEN None
                  ELSE Some(stdev)
         ELSE None

\* an append that drops the newest result when the window is full
TestResultsAppendDropsNewest(tr, result) ==
    LET pushed == Append(tr.results, result)
    IN  [tr EXCEPT !.results = IF Len(pushed) > tr.max THEN tr.results ELSE pushed]

\* TestResults::append: push at the end, drop the oldest past max
TestResultsAppend(tr, result) ==
    LET pushed == Append(tr.results, result)
    IN  [tr EXCEPT !.results = IF Len(pushed) > tr.max THEN Tail(pushed) ELSE pushed]

(***************************************************************************)
(* SpecResults: a window of any min and max, fed any results, verified.    *)
(***************************************************************************)
InitResults ==
    /\ \E mn \in 0..MaxMinLen, mx \in 1..MaxWindow :
          testresults = TestResultsNew(mn, mx)
    /\ spread \in Spreads
    /\ verified = FALSE
    /\ verdict = None
    /\ IdleConsumer
    /\ IdleScale
    /\ IdleWait
    /\ IdleFleet
    /\ IdleSampling
    /\ IdleData
    /\ IdleFlow
    /\ IdleSetup

ResultsAppend ==
    \E tps \in TpsVals, lat \in LatVals :
       /\ testresults' = TestResultsAppend(testresults, TestResult(F64(tps), lat))
       /\ verified' = FALSE
       /\ verdict' = None
       /\ UNCHANGED <<spread, othersResults>>

ResultsVerify ==
    /\ ~verified
    /\ verdict' = verify(testresults, spread)
    /\ verified' = TRUE
    /\ UNCHANGED <<testresults, spread, othersResults>>

NextResults == ResultsAppend \/ ResultsVerify

SpecResults == InitResults /\ [][NextResults]_vars

(***************************************************************************)
(* The relative standard deviation of a window, said without the code's    *)
(* steps: the variance as the mean of the squares less the square of the   *)
(* mean, every comparison multiplied out.  A relative deviation exists     *)
(* only for a window that is not empty; over a mean of zero it is 0.       *)
(***************************************************************************)
WindowTps(tr) == [i \in 1..Len(tr.results) |-> tr.results[i].tps.num]
WindowLat(tr) == [i \in 1..Len(tr.results) |-> tr.results[i].latency]
SquaresOf(s) == [i \in 1..Len(s) |-> s[i] * s[i]]

\* 100 * stddev(tps) / mean(tps) < sprd, with the population stddev:
\*   stddev^2 = (n * sum(x^2) - sum(x)^2) / n^2,  mean^2 = sum(x)^2 / n^2
RelStdDevTpsBelow(tr, sprd) ==
    LET n == Len(tr.results)
        s == SeqSum(WindowTps(tr))
        q == SeqSum(SquaresOf(WindowTps(tr)))
    IN  /\ n > 0
        /\ sprd > 0
        /\ (s = 0 \/ 10000 * (n * q - s * s) < sprd * sprd * s * s)

\* 100 * stddev(latency) / mean(latency) < sprd at the resolution of a
\* microsecond: the mean, the deviations from it and the stddev are whole
\* microseconds
RelStdDevLatBelow(tr, sprd) ==
    LET n == Len(tr.results)
        mean_ns == SeqSum(WindowLat(tr)) \div n
        mean_us == mean_ns \div 1000
        dev_us == [i \in 1..n |-> TruncDiv(mean_ns - WindowLat(tr)[i], 1000)]
        q == SeqSum(SquaresOf(dev_us))
        sd_us == CHOOSE s \in 0..q : s * s * n <= q /\ q < (s + 1) * (s + 1) * n
    IN  /\ n > 0
        /\ sprd > 0
        /\ (mean_us = 0 \/ 100 * sd_us < sprd * mean_us)

TestResultEq(a, b) == F64Eq(a.tps, b.tps) /\ a.latency = b.latency

\* C2: whenever verify(spread) returns Some, the TestResult it returns is
\* the mean of the window (mean tps and mean latency).
C2_VerifyReturnsMean ==
    (verified /\ IsSome(verdict)) =>
        TestResultEq(Unwrap(verdict), Unwrap(mean(testresults)))

(***************************************************************************)
(* Consumer (consumer.rs): the struct the controller holds, and scaleup.   *)
(***************************************************************************)
THREADS_PER_CONSUMER == 10

\* Consumer::new: no worker yet; threads holds the ids of the workers spawned
ConsumerNew(id) == [id |-> id, num_threads |-> 0, threads |-> <<>>]

\* (x as i32): the identity below 2^31, where the counts of the model stay
AsI32(x) == x

\* a leftover that is never cut off at the consumer's capacity
LeftoverNone(num_threads, extra_threads) == 0

\* the leftover of scaleup: what does not fit under THREADS_PER_CONSUMER
Leftover(num_threads, extra_threads) ==
    LET leftover == AsI32(num_threads + extra_threads) - THREADS_PER_CONSUMER
    IN  IF leftover < 0 THEN 0 ELSE leftover

\* ids that count from 0 in every call
WorkerIdsOfCall(start, end) == [i \in 1..(end - start) |-> i - 1]

\* the ids start..end-1 of the workers a call spawns, in spawn order
WorkerIds(start, end) == [i \in 1..(end - start) |-> start + i - 1]

\* a count that grows by all that was asked for, not by what was spawned
CountAsked(c, extra_threads, spawned) == c.num_threads + extra_threads

\* self.num_threads += extra_threads, after the leftover was taken off
CountSpawned(c, extra_threads, spawned) == c.num_threads + spawned

(* Consumer::scaleup(extra_threads): the consumer after the call, the       *)
(* leftover returned, the ids spawned.  extra_threads -= leftover is a u32  *)
(* subtraction: below zero it panics (debug) or wraps (release), and        *)
(* underflow says so; the call then stops before it spawns.                 *)
ConsumerScaleup(c, extra_threads) ==
    LET leftover == Leftover(c.num_threads, extra_threads)
        underflow == extra_threads < leftover
        extra == IF underflow THEN 0 ELSE extra_threads - leftover
        start == c.id * THREADS_PER_CONSUMER + c.num_threads
        end == start + extra
        ids == WorkerIds(start, end)
    IN  [consumer |-> [c EXCEPT !.threads = @ \o ids,
                                !.num_threads = CountSpawned(c, extra_threads, extra)],
         leftover |-> leftover,
         spawned |-> ids,
         underflow |-> underflow]

(***************************************************************************)
(* SpecConsumer: one consumer, scaled up by any sequence of calls.         *)
(***************************************************************************)
InitConsumer ==
    /\ \E id \in 0..MaxConsumerId : consumer = ConsumerNew(id)
    /\ call = [called |-> FALSE]
    /\ IdleResults
    /\ IdleScale
    /\ IdleWait
    /\ IdleFleet
    /\ IdleSampling
    /\ IdleData
    /\ IdleFlow
    /\ IdleSetup

ConsumerScaleupCall ==
    \E k \in 0..MaxExtra :
       LET r == ConsumerScaleup(consumer, k)
       IN  /\ consumer' = r.consumer
           /\ call' = [called |-> TRUE, extra_threads |-> k,
                       before |-> consumer.num_threads,
                       spawned |-> Len(r.spawned), leftover |-> r.leftover,
                       underflow |-> r.underflow]
           /\ UNCHANGED othersConsumer

NextConsumer == ConsumerScaleupCall

SpecConsumer == InitConsumer /\ [][NextConsumer]_vars

Min(a, b) == IF a < b THEN a ELSE b

\* C5: after any sequence of Consumer.scaleup calls, num_threads never
\* exceeds THREADS_PER_CONSUMER (10) and equals the number of worker
\* threads the consumer has spawned.
C5_ConsumerCapacity ==
    /\ consumer.num_threads <= THREADS_PER_CONSUMER
    /\ consumer.num_threads = Len(consumer.threads)

\* a call that was asked for more than fits filled the consumer up
C5_Witness ==
    /\ call.called
    /\ call.leftover > 0
    /\ call.before > 0
    /\ consumer.num_threads = THREADS_PER_CONSUMER

\* C6: scaleup(k) on a consumer that holds c workers spawns exactly
\* min(k, 10 - c) workers and returns leftover = k - min(k, 10 - c), so
\* spawned + leftover = k; the subtraction of the leftover never underflows.
C6_ScaleupSplit ==
    call.called =>
        /\ call.spawned = Min(call.extra_threads, THREADS_PER_CONSUMER - call.before)
        /\ call.leftover = call.extra_threads - call.spawned
        /\ call.spawned + call.leftover = call.extra_threads
        /\ consumer.num_threads = call.before + call.spawned
        /\ ~call.underflow

\* a call on a consumer holding some workers spawned some and returned some
C6_Witness ==
    /\ call.called
    /\ call.before > 0
    /\ call.spawned > 0
    /\ call.leftover > 0

(***************************************************************************)
(* Threader, the controller of the consumers: its sizing and               *)
(* scaleup(target).  It hands the extra workers to the last consumer, and  *)
(* what that returns to new consumers while a slot is free.                *)
(***************************************************************************)
\* ceil(max_workers / THREADS_PER_CONSUMER) + 1 consumer slots
ConsumerSlots(max_threads) ==
    (max_threads + THREADS_PER_CONSUMER - 1) \div THREADS_PER_CONSUMER + 1

ThreaderNew(max_threads) ==
    [num_threads |-> 0, max_threads |-> max_threads, consumers |-> <<>>]

\* while leftover > 0 and a slot is free: a new consumer takes the leftover
RECURSIVE Distribute(_, _, _)
Distribute(consumers, leftover, slots) ==
    IF leftover > 0 /\ Len(consumers) < slots
    THEN LET r == ConsumerScaleup(ConsumerNew(Len(consumers)), leftover)
         IN  Distribute(Append(consumers, r.consumer), r.leftover, slots)
    ELSE [consumers |-> consumers, leftover |-> leftover]

\* scaleup(target): the threader after the call and what found no place
ThreaderScaleup(t, target) ==
    LET extra == target - t.num_threads
        n == Len(t.consumers)
        last == IF n > 0
                THEN ConsumerScaleup(t.consumers[n], extra)
                ELSE [consumer |-> <<>>, leftover |-> extra]
        filled == IF n > 0
                  THEN [t.consumers EXCEPT ![n] = last.consumer]
                  ELSE t.consumers
        d == Distribute(filled, last.leftover, ConsumerSlots(t.max_threads))
    IN  [threader |-> [t EXCEPT !.consumers = d.consumers, !.num_threads = target],
         leftover |-> d.leftover]

\* the workers the consumers of a threader hold, summed
RECURSIVE ConsumerSum(_)
ConsumerSum(consumers) ==
    IF consumers = <<>> THEN 0
    ELSE consumers[1].num_threads + ConsumerSum(Tail(consumers))

(***************************************************************************)
(* SpecScale: a controller of any max_workers, scaled up to any targets    *)
(* current <= target <= max_workers.                                       *)
(***************************************************************************)
InitScale ==
    /\ \E mx \in 1..MaxThreads : threader = ThreaderNew(mx)
    /\ scaled = [called |-> FALSE]
    /\ IdleResults
    /\ IdleConsumer
    /\ IdleWait
    /\ IdleFleet
    /\ IdleSampling
    /\ IdleData
    /\ IdleFlow
    /\ IdleSetup

ScaleScaleup ==
    \E target \in threader.num_threads..threader.max_threads :
       LET r == ThreaderScaleup(threader, target)
       IN  /\ threader' = r.threader
           /\ scaled' = [called |-> TRUE, target |-> target,
                         before |-> threader.num_threads, leftover |-> r.leftover]
           /\ UNCHANGED othersScale

NextScale == ScaleScaleup

SpecScale == InitScale /\ [][NextScale]_vars

ParallelSample(ts, transactions, waits, duration, num) ==
    [timeslice |-> ts, total_transactions |-> transactions, total_waits |-> waits,
     total_duration |-> duration, num_samples |-> num]

\* ParallelSample::avg_latency
ps_avg_latency(ps) ==
    IF ps.total_transactions = 0 THEN 0
    ELSE TruncDiv(ps.total_waits, ps.total_transactions)

\* ParallelSample::tot_tps
ps_tot_tps(ps) ==
    IF ps.num_samples < 1
    THEN F64(0)
    ELSE LET duration == TruncDiv(ps.total_duration, ps.num_samples)
         IN  IF duration = 0
             THEN F64(ps.total_transactions)
             ELSE F64Mul(F64(1000000000), Frac(ps.total_transactions, duration))

as_testresult(ps) == TestResult(ps_tot_tps(ps), ps_avg_latency(ps))

\* an add that takes the duration of the sample added for the total
ParallelSampleAddLastDuration(a, b) ==
    [a EXCEPT !.total_transactions = @ + b.total_transactions,
              !.total_waits = @ + b.total_waits,
              !.total_duration = b.total_duration,
              !.num_samples = @ + b.num_samples]

\* ParallelSample::add, for samples of one timeslice
ParallelSampleAdd(a, b) ==
    [a EXCEPT !.total_transactions = @ + b.total_transactions,
              !.total_waits = @ + b.total_waits,
              !.total_duration = @ + b.total_duration,
              !.num_samples = @ + b.num_samples]

ParallelSamplesNew == <<>>

\* an add that puts the sample in the place of the entry of its timeslice
ParallelSamplesAddReplaces(pss, sample) ==
    [t \in DOMAIN pss \cup {sample.timeslice} |->
        IF t = sample.timeslice THEN sample ELSE pss[t]]

\* ParallelSamples::add: merge into the entry of the timeslice, or insert
ParallelSamplesAdd(pss, sample) ==
    IF sample.timeslice \in DOMAIN pss
    THEN [pss EXCEPT ![sample.timeslice] = ParallelSampleAdd(@, sample)]
    ELSE [t \in DOMAIN pss \cup {sample.timeslice} |->
             IF t = sample.timeslice THEN sample ELSE pss[t]]

\* the keys of the map in ascending order, as BTreeMap iterates
RECURSIVE SortedKeys(_)
SortedKeys(S) ==
    IF S = {} THEN <<>>
    ELSE LET lo == CHOOSE x \in S : \A y \in S : x <= y
         IN  <<lo>> \o SortedKeys(S \ {lo})

\* the loop of as_results over the keys left: stop at the first timeslice
\* that is not below previous_timeslice
RECURSIVE AsResultsLoop(_, _, _, _)
AsResultsLoop(pss, keys, previous_timeslice, results) ==
    IF keys = <<>> \/ pss[keys[1]].timeslice >= previous_timeslice
    THEN results
    ELSE AsResultsLoop(pss, Tail(keys), previous_timeslice,
                       TestResultsAppend(results, as_testresult(pss[keys[1]])))

\* what current_timeslice() - 1 wraps around to in timeslice 0, in a release
\* build: 2^32 - 1, which is above the timeslice of every sample the model
\* holds, as is the largest number at hand that stands for it here
WrappedPrevious == 2147483647

\* let previous_timeslice = current_timeslice() - 1, in u32
previous_timeslice(current) ==
    IF current >= 1 THEN current - 1 ELSE WrappedPrevious

\* ParallelSamples::as_results(min, max) called in timeslice current
as_results(pss, min, max, current) ==
    AsResultsLoop(pss, SortedKeys(DOMAIN pss), previous_timeslice(current),
                  TestResultsNew(min, max))

(***************************************************************************)
(* wait_stable(spread, count, max_wait): the accumulator of the level, the *)
(* window of min_len count and max_len count + 1, and the loop: consume    *)
(* for a timeslice, rebuild the window, return the verdict if there is     *)
(* one, or the mean once count iterations have run and the deadline is     *)
(* past.                                                                   *)
(***************************************************************************)
\* transactions of the samples that arrive while wait_stable consumes
TxVals == {4, 5}
\* what one worker waits per transaction, in ns
WaitVals == {1000000}
\* what one worker spends in a sample: a timeslice, in ns
SampleDuration == 200000000

\* the deadline has passed or count iterations have run: either is enough
TimedOutEither(i, count, at, deadline) == i >= count \/ at > deadline

\* at least count iterations have elapsed and the deadline is past
TimedOut(i, count, at, deadline) == i >= count /\ at > deadline

InitWait ==
    /\ now = 2
    /\ ws = [pc |-> "idle"]
    /\ IdleResults
    /\ IdleConsumer
    /\ IdleScale
    /\ IdleFleet
    /\ IdleSampling
    /\ IdleData
    /\ IdleFlow
    /\ IdleSetup

\* the call: the deadline is set, the accumulator and the window are empty
WaitStart ==
    /\ ws.pc = "idle"
    /\ \E sprd \in Spreads \ {0}, count \in 0..MaxCount, max_wait \in 0..MaxWait :
          ws' = [pc |-> "loop", spread |-> sprd, count |-> count,
                 start |-> now, deadline |-> now + max_wait, i |-> 0,
                 parallel_samples |-> ParallelSamplesNew,
                 results |-> TestResultsNew(count, count + 1),
                 result |-> None, stable |-> FALSE]
    /\ UNCHANGED <<now, othersWait>>

\* what arrives during one consume: nothing, or the sample of a worker for
\* the timeslice that runs or for the one before it
Arrivals ==
    {<<>>} \cup
    {<<ParallelSample(ts, tx, tx * w, SampleDuration, 1)>> :
        ts \in {now - 1, now}, tx \in TxVals, w \in WaitVals}

\* one iteration of the loop, to its end
WaitIterate ==
    /\ ws.pc = "loop"
    /\ \E arrived \in Arrivals :
          LET acc == IF arrived = <<>> THEN ws.parallel_samples
                     ELSE ParallelSamplesAdd(ws.parallel_samples, arrived[1])
              at == now + 1
              window == as_results(acc, ws.count, ws.count + 1, at)
              v == verify(window, ws.spread)
              i == ws.i + 1
          IN  /\ now' = at
              /\ ws' = IF IsSome(v)
                       THEN [ws EXCEPT !.pc = "returned", !.i = i,
                                       !.parallel_samples = acc, !.results = window,
                                       !.result = v, !.stable = TRUE]
                       ELSE IF TimedOut(i, ws.count, at, ws.deadline)
                       THEN [ws EXCEPT !.pc = "returned", !.i = i,
                                       !.parallel_samples = acc, !.results = window,
                                       !.result = mean(window), !.stable = FALSE]
                       ELSE [ws EXCEPT !.i = i, !.parallel_samples = acc,
                                       !.results = window]
    /\ UNCHANGED othersWait

NextWait == WaitStart \/ WaitIterate

SpecWait == InitWait /\ [][NextWait]_vars

\* the window as_results builds from the accumulator at the present time
WindowNow == as_results(ws.parallel_samples, ws.count, ws.count + 1, now)

FinishValueCleared == FALSE

FinishValue == TRUE

\* a worker that looks at a flag of its own, which nobody sets
WorkerReadsOwn(w) == FALSE

\* self.done.read() in Worker::procedure: done is the flag that was handed
\* to Consumer::scaleup, the controller's
WorkerReadsDone(w) == done

\* done.read() in consumer: done is the flag Consumer::new made for its
\* thread, which no one else holds and no one sets
ConsumerReadsDone(c) == FALSE

\* the consumer a worker sends to
ConsumerOf(w) == w \div THREADS_PER_CONSUMER + 1

\* one more message in a channel
Queued(n) == Min(n + 1, MaxQueue)

InitFleet ==
    /\ main_pc = "run"
    /\ \E mx \in 1..MaxFleet : fleet = ThreaderNew(mx)
    /\ done = FALSE
    /\ writes = <<>>
    /\ cthreads = <<>>
    /\ workers = <<>>
    /\ chan = <<>>
    /\ upstream = 0
    /\ IdleResults
    /\ IdleConsumer
    /\ IdleScale
    /\ IdleWait
    /\ IdleSampling
    /\ IdleData
    /\ IdleFlow
    /\ IdleSetup

\* the ids of all workers the consumers hold
RECURSIVE AllThreads(_)
AllThreads(consumers) ==
    IF consumers = <<>> THEN {}
    ELSE {consumers[1].threads[i] : i \in 1..Len(consumers[1].threads)}
         \cup AllThreads(Tail(consumers))

\* scaleup(target): new consumers start their thread, new workers theirs
FleetScaleup ==
    /\ main_pc = "run"
    /\ \E target \in (fleet.num_threads + 1)..fleet.max_threads :
          LET r == ThreaderScaleup(fleet, target)
              n == Len(r.threader.consumers)
              ids == AllThreads(r.threader.consumers)
          IN  /\ fleet' = r.threader
              /\ cthreads' = [c \in 1..n |->
                                IF c \in DOMAIN cthreads THEN cthreads[c]
                                ELSE [pc |-> "head"]]
              /\ chan' = [c \in 1..n |-> IF c \in DOMAIN chan THEN chan[c] ELSE 0]
              /\ workers' = [w \in ids |->
                               IF w \in DOMAIN workers THEN workers[w]
                               ELSE [pc |-> "init", late |-> 0]]
    /\ UNCHANGED <<main_pc, done, writes, upstream, othersFleet>>

\* the controller takes a message of a consumer off its channel
FleetConsume ==
    /\ main_pc = "run"
    /\ upstream > 0
    /\ upstream' = upstream - 1
    /\ UNCHANGED <<main_pc, fleet, done, writes, cthreads, workers, chan, othersFleet>>

\* Threader::finish: set the flag, sleep, return
FleetFinish ==
    /\ main_pc = "run"
    /\ done' = FinishValue
    /\ writes' = Append(writes, [by |-> "finish", value |-> FinishValue])
    /\ main_pc' = "finished"
    /\ UNCHANGED <<fleet, cthreads, workers, chan, upstream, othersFleet>>

\* Worker::initialize: the worker goes on to its loop, or the error ends it
WorkerInit(w) ==
    /\ w \in DOMAIN workers
    /\ workers[w].pc = "init"
    /\ \E ok \in BOOLEAN :
          workers' = [workers EXCEPT ![w].pc = IF ok THEN "head" ELSE "failed"]
    /\ UNCHANGED <<main_pc, fleet, done, writes, cthreads, chan, upstream, othersFleet>>

\* the head of the worker's loop: break if the flag is set
WorkerHead(w) ==
    /\ w \in DOMAIN workers
    /\ workers[w].pc = "head"
    /\ workers' = [workers EXCEPT ![w].pc =
                      IF WorkerReadsDone(w) THEN "exited" ELSE "sampling"]
    /\ UNCHANGED <<main_pc, fleet, done, writes, cthreads, chan, upstream, othersFleet>>

\* sample() and what follows it: the sample is sent, or after an error the
\* worker sleeps and reconnects; a send to a consumer that is gone ends it
WorkerSample(w) ==
    /\ w \in DOMAIN workers
    /\ workers[w].pc = "sampling"
    /\ \E ok \in BOOLEAN :
          IF ~ok
          THEN /\ workers' = [workers EXCEPT ![w].pc = "head"]
               /\ UNCHANGED chan
          ELSE IF cthreads[ConsumerOf(w)].pc = "exited"
          THEN /\ workers' = [workers EXCEPT ![w].pc = "exited"]
               /\ UNCHANGED chan
          ELSE /\ workers' = [workers EXCEPT
                                ![w].pc = "head",
                                ![w].late = IF done THEN Min(@ + 1, 2) ELSE @]
               /\ chan' = [chan EXCEPT ![ConsumerOf(w)] = Queued(@)]
    /\ UNCHANGED <<main_pc, fleet, done, writes, cthreads, upstream, othersFleet>>

\* the head of the consumer's loop: break if its flag is set
ConsumerHead(c) ==
    /\ c \in DOMAIN cthreads
    /\ cthreads[c].pc = "head"
    /\ cthreads' = [cthreads EXCEPT ![c].pc =
                       IF ConsumerReadsDone(c) THEN "exited" ELSE "polling"]
    /\ UNCHANGED <<main_pc, fleet, done, writes, workers, chan, upstream, othersFleet>>

\* one round of up to THREADS_PER_CONSUMER * SCALEDOWNFACTOR receives, and
\* the send upstream of what was merged, if anything
ConsumerPoll(c) ==
    /\ c \in DOMAIN cthreads
    /\ cthreads[c].pc = "polling"
    /\ \E n \in 0..chan[c] :
          /\ chan' = [chan EXCEPT ![c] = @ - n]
          /\ upstream' = IF n > 0 THEN Queued(upstream) ELSE upstream
          /\ cthreads' = [cthreads EXCEPT ![c].pc = "head"]
    /\ UNCHANGED <<main_pc, fleet, done, writes, workers, othersFleet>>

WorkerStep(w) == WorkerInit(w) \/ WorkerHead(w) \/ WorkerSample(w)

ConsumerStep(c) == ConsumerHead(c) \/ ConsumerPoll(c)

NextFleet ==
    \/ FleetScaleup
    \/ FleetConsume
    \/ FleetFinish
    \/ \E w \in 0..(MaxFleet - 1) : WorkerStep(w)
    \/ \E c \in 1..ConsumerSlots(MaxFleet) : ConsumerStep(c)

SpecFleet == InitFleet /\ [][NextFleet]_vars

\* every worker thread gets to run, and its database calls return
FairSpecFleet ==
    /\ InitFleet
    /\ [][NextFleet]_vars
    /\ \A w \in 0..(MaxFleet - 1) : WF_vars(WorkerStep(w))

\* C8: the cancellation flag starts false; only the controller's finish()
\* changes it, once, to true; it is never set back, and no worker or
\* consumer thread writes it.
C8_FlagSetOnce ==
    /\ ~done
    /\ [][/\ done => done'
          /\ done' # done => (main_pc = "run" /\ main_pc' = "finished")]_vars
    /\ [](/\ done = (writes # <<>>)
          /\ Len(writes) <= 1
          /\ \A i \in 1..Len(writes) : writes[i] = [by |-> "finish", value |-> TRUE]
          /\ done = (main_pc = "finished"))

\* finish() has run with workers and a consumer thread still at work
C8_Witness ==
    /\ main_pc = "finished"
    /\ done
    /\ Len(writes) = 1
    /\ \E w \in DOMAIN workers : workers[w].pc = "sampling"
    /\ \E c \in DOMAIN cthreads : cthreads[c].pc = "polling"

\* C9: once the flag is set, with every worker scheduled and its database
\* calls returning, every worker ends; a worker that reads the set flag at the
\* head of its loop leaves the loop there, starts no new iteration, and sends
\* nothing but the sample it was measuring when the flag was set.
C9_WorkersExit ==
    /\ done ~> (\A w \in DOMAIN workers : workers[w].pc \in {"exited", "failed"})
    /\ [][\A w \in DOMAIN workers :
            /\ (done /\ workers[w].pc = "head") => workers'[w].pc \in {"head", "exited"}
            /\ workers[w].pc = "exited" => workers'[w] = workers[w]]_vars
    /\ [](\A w \in DOMAIN workers : workers[w].late <= 1)

\* all workers of a full fleet have left their loop after finish(), one of
\* them after sending the sample it was measuring
C9_Witness ==
    /\ done
    /\ DOMAIN workers = 0..(MaxFleet - 1)
    /\ \A w \in DOMAIN workers : workers[w].pc = "exited"
    /\ \E w \in DOMAIN workers : workers[w].late = 1
    /\ \E w \in DOMAIN workers : workers[w].late = 0

\* C10: once finish() has set the flag, a consumer thread at the head of its
\* loop leaves the loop there.
C10_ConsumersExit ==
    [][\A c \in DOMAIN cthreads :
         (done /\ cthreads[c].pc = "head") => cthreads'[c].pc \in {"head", "exited"}]_vars

(***************************************************************************)
(* u32 and i64 in full.  A value is its 16-bit limbs, the most significant *)
(* first: four limbs for an i64 that is not negative, two for a u32.       *)
(***************************************************************************)
Limb == 65536

\* x / d for limbs x and a small d, limb by limb; rem is carried down
RECURSIVE LimbsDivLoop(_, _, _)
LimbsDivLoop(x, d, rem) ==
    IF x = <<>> THEN <<>>
    ELSE LET cur == rem * Limb + Head(x)
         IN  <<cur \div d>> \o LimbsDivLoop(Tail(x), d, cur % d)

LimbsDiv(x, d) == LimbsDivLoop(x, d, 0)

\* (x as u32): the low 32 bits
AsU32(x) == <<x[Len(x) - 1], x[Len(x)]>>

\* DateTime - epoch, num_milliseconds(): the limbs of the milliseconds
num_milliseconds(when) == when

\* timeslice(when)
timeslice(when) == AsU32(LimbsDiv(num_milliseconds(when), 200))

(***************************************************************************)
(* Sample (samples.rs): start is the DateTime of Sample::new, duration is  *)
(* end - start in ns.  failed counts the statements in it that returned an *)
(* error: the code keeps no such count, the model does.                    *)
(***************************************************************************)
Sample(start, transactions, wait, duration, failed) ==
    [start |-> start, transactions |-> transactions, wait |-> wait,
     duration |-> duration, failed |-> failed]

\* Sample::tps
sample_tps(s) == F64Mul(F64(1000000000), Frac(s.transactions, s.duration))

\* Sample::to_parallel_sample
to_parallel_sample(s) ==
    ParallelSample(timeslice(s.start), s.transactions, s.wait, s.duration, 1)

(***************************************************************************)
(* One worker's loop: Worker::procedure and sample (worker.rs), and the    *)
(* Thread::procedure and sample that went before them (threads.rs).        *)
(***************************************************************************)
Kinds == {"worker", "thread"}

WorkloadTypes == {"Default", "Transactional", "Prepared", "PreparedTransactional"}

\* what one worker waits per unit of work, in ns
UnitWaits == {1000000}
\* end - start of a sample, in ns
SampleDurations == {100000000, 1000000000}
\* the DateTime a sample starts at: 1000 ms after the epoch
SampleStarts == {<<0, 0, 0, 1000>>}

\* let mut tps: f64 = 1000_f64
InitialTps == 1000

\* the query the Workload is made with: none, or the default of the command line
ConfiguredQueries == {"", "select * from pg_tables"}

\* the ids of the workers looked at
WorkerIdVals == {0, 11}

\* the query of sample(): the update of the worker's row in the table of
\* TABLE_NAME, whatever query the Workload holds
statement(configured) == "update pg_tps_optimizer set id=$1 where id=$1"

\* the calls of one unit of work that can return an error, in order
UnitSteps(w_type) ==
    CASE w_type = "Default"               -> <<"query">>
      [] w_type = "Prepared"              -> <<"prepare", "query">>
      [] w_type = "Transactional"         -> <<"transaction", "query", "commit">>
      [] w_type = "PreparedTransactional" -> <<"transaction", "prepare", "query", "commit">>

\* a unit of work in which the call `failing` returns an error ("none": no
\* call does).  `?` hands the error out of sample(); the error of the
\* statement of a PreparedTransactional unit is dropped (let _row = ...) and
\* the unit goes on to its commit
UnitResult(w_type, failing, commit_ok) ==
    CASE failing = "none" -> "ok"
      [] w_type = "PreparedTransactional" /\ failing = "query" ->
             IF commit_ok THEN "counted" ELSE "err"
      [] OTHER -> "err"

\* num_queries: (tps / 10) as u64, raised to 1
NumQueries(tps) ==
    LET n == F64AsI64(F64DivInt(tps, 10))
    IN  IF n < 1 THEN 1 ELSE n

\* how often the loop of sample() runs: 0..num_queries in worker.rs,
\* 1..num_queries in threads.rs
LoopCount(kind, num_queries) ==
    IF kind = "worker" THEN num_queries ELSE num_queries - 1

\* sample(): Err when a unit returns an error, the Sample otherwise.
\* fail_at is the unit in which `failing` returns its error (0: in none)
sample(kind, w_type, tps, fail_at, failing, commit_ok, wait, duration, start) ==
    LET n == NumQueries(tps)
        units == LoopCount(kind, n)
        hit == fail_at \in 1..units
        unit == IF hit THEN UnitResult(w_type, failing, commit_ok) ELSE "ok"
    IN  IF unit = "err"
        THEN [ok |-> FALSE, num_queries |-> n, executed |-> fail_at,
              db_error |-> TRUE, sample |-> <<>>]
        ELSE [ok |-> TRUE, num_queries |-> n, executed |-> units,
              db_error |-> hit /\ failing # "none",
              sample |-> <<Sample(start, units, units * wait, duration,
                                  IF unit = "counted" THEN 1 ELSE 0)>>]

\* a worker that goes on after a send that failed
AfterSendIgnored(sent) == "head"

\* self.tx.send(pss)?: the error of a send ends procedure()
AfterSend(sent) == IF sent THEN "head" ELSE "exited"

\* client = self.workload.client(): Dsn::client unwraps the result of
\* Client::connect, so a connect that fails panics the worker's thread
AfterReconnect(connected) == IF connected THEN "head" ELSE "panicked"

InitWorker ==
    /\ \E kind \in Kinds, w_type \in WorkloadTypes,
          query \in ConfiguredQueries, id \in WorkerIdVals :
          wk = [pc |-> "init", kind |-> kind, w_type |-> w_type, tps |-> F64(InitialTps),
                query |-> query, id |-> id]
    /\ it = [outcome |-> "none"]
    /\ rx_open = TRUE
    /\ IdleControl
    /\ IdleData
    /\ IdleFlow
    /\ IdleSetup
    /\ IdleSchedule
    /\ IdleBucket
    /\ IdleWindow
    /\ IdleMerge

\* initialize(): the client, the table and the worker's row, or the error
WorkerInitialize ==
    /\ wk.pc = "init"
    /\ \E ok \in BOOLEAN : wk' = [wk EXCEPT !.pc = IF ok THEN "head" ELSE "failed"]
    /\ UNCHANGED <<it, rx_open, othersWorker>>

\* one turn of the loop, from the read of the flag to the send or the
\* reconnect
WorkerIterate ==
    /\ wk.pc = "head"
    /\ \E flag \in BOOLEAN, failing \in {"none"} \cup {UnitSteps(wk.w_type)[i] :
                                            i \in 1..Len(UnitSteps(wk.w_type))},
          commit_ok \in BOOLEAN, connected \in BOOLEAN,
          wait \in UnitWaits, duration \in SampleDurations, start \in SampleStarts :
          \E fail_at \in IF failing = "none" THEN {0}
                         ELSE {1, NumQueries(wk.tps)} :
             IF flag
             THEN /\ wk' = [wk EXCEPT !.pc = "exited"]
                  /\ it' = [outcome |-> "break"]
             ELSE LET r == sample(wk.kind, wk.w_type, wk.tps, fail_at, failing,
                                  commit_ok, wait, duration, start)
                      base == [num_queries |-> r.num_queries, executed |-> r.executed,
                               db_error |-> r.db_error, tps_before |-> wk.tps,
                               statement |-> statement(wk.query), param |-> wk.id]
                  IN  IF r.ok
                      THEN /\ it' = base @@
                                  [outcome |-> IF rx_open THEN "sent" ELSE "send failed",
                                   sample |-> r.sample[1],
                                   message |->
                                      IF wk.kind = "worker"
                                      THEN ParallelSamplesAdd(ParallelSamplesNew,
                                              to_parallel_sample(r.sample[1]))
                                      ELSE r.sample[1]]
                           /\ wk' = [wk EXCEPT
                                       !.pc = AfterSend(rx_open),
                                       !.tps = IF rx_open THEN sample_tps(r.sample[1]) ELSE @]
                      ELSE /\ it' = base @@ [outcome |-> "error", connected |-> connected]
                           /\ wk' = [wk EXCEPT !.pc = AfterReconnect(connected)]
    /\ UNCHANGED <<rx_open, othersWorker>>

\* the consumer thread ends and drops the receiving end of the channel
ReceiverCloses ==
    /\ wk.pc # "idle"
    /\ rx_open
    /\ rx_open' = FALSE
    /\ UNCHANGED <<wk, it, othersWorker>>

NextWorker == WorkerInitialize \/ WorkerIterate \/ ReceiverCloses

SpecWorker == InitWorker /\ [][NextWorker]_vars

\* the worker has been through a turn of its loop that ran sample()
Sampled == it.outcome \in {"sent", "send failed", "error"}

\* C11: when a unit of work of an iteration fails with a database error,
\* nothing is sent for that iteration and the tps estimate stays as it was;
\* no Sample that is sent holds a statement that failed.
C11_ErrorAbandonsSample ==
    /\ (Sampled /\ it.db_error) => (it.outcome = "error" /\ wk.tps = it.tps_before)
    /\ it.outcome = "sent" => it.sample.failed = 0

\* C12: after a database error the worker reconnects; when the connection
\* attempt fails the worker is still alive, at the head of its loop.
C12_FailedConnectRetries ==
    (it.outcome = "error" /\ ~it.connected) => wk.pc = "head"

\* C13: a worker whose send fails because the receiving end is closed has
\* terminated; a worker that has terminated runs no further unit of work and
\* sends no further sample.
C13_SendFailureTerminates ==
    /\ [](it.outcome = "send failed" => wk.pc = "exited")
    /\ [][wk.pc = "exited" => (wk' = wk /\ it' = it)]_vars

\* a worker of worker.rs sampled all its units and found the channel closed
C13_Witness ==
    /\ wk.kind = "worker"
    /\ ~rx_open
    /\ it.outcome = "send failed"
    /\ it.executed = it.num_queries
    /\ wk.pc = "exited"

\* max(1, floor(tps / 10)), as the whole n with 10 n <= tps < 10 (n + 1)
TenthOf(tps) ==
    IF F64Less(tps, F64(10)) THEN 1
    ELSE CHOOSE n \in 1..InitialTps :
            /\ ~F64Less(tps, F64(10 * n))
            /\ F64Less(tps, F64(10 * (n + 1)))

\* C14: an iteration that completes has run exactly N = max(1, floor(tps /
\* 10)) units of work and sends a Sample of N transactions, at least one.
C14_ExactlyNUnits ==
    it.outcome = "sent" =>
        /\ it.executed = TenthOf(it.tps_before)
        /\ it.sample.transactions = TenthOf(it.tps_before)
        /\ it.sample.transactions >= 1

(***************************************************************************)
(* The controller's schedule: the range of worker counts (cli/mod.rs), the *)
(* Fibonacci iterator (fibonacci/mod.rs), and the loop over its values     *)
(* that scales up, waits for a stable level, samples the server and prints *)
(* a row.                                                                  *)
(***************************************************************************)
MaxFound == 2       \* the most runs of digits in a --range string

\* what the runs of digits of a --range string parse to; -1 is a run too
\* long for a u32, whose parse() fails
ParsedVals == {-1, 1, 4, 8, 50}

\* the runs of digits re.find_iter finds in the string, in order
RangeStrings == UNION {[1..n -> ParsedVals] : n \in 0..MaxFound}

\* (1, 1000) when no number is given
DefaultMax == 1000

\* Params::range_min_max
range_min_max(found) ==
    LET values == SelectSeq(found, LAMBDA v : v >= 0)
    IN  CASE Len(values) = 0 -> <<1, DefaultMax>>
          [] Len(values) = 1 -> <<1, values[1]>>
          [] OTHER           -> <<values[1], values[Len(values)]>>

\* Fibonacci::new
FibonacciNew(curr, next) == [curr |-> curr, next |-> next]

\* an iterator that hands out curr before it moves on
FibonacciNextStale(f) ==
    [fib |-> [curr |-> f.next, next |-> f.curr + f.next], item |-> f.curr]

\* Fibonacci::next: the iterator after the call and the item it returns
FibonacciNext(f) ==
    [fib |-> [curr |-> f.next, next |-> f.curr + f.next], item |-> f.next]

InitSchedule ==
    /\ \E found \in RangeStrings :
          LET mm == range_min_max(found)
          IN  sched = [pc |-> "loop", range |-> found,
                       min_threads |-> mm[1], max_threads |-> mm[2],
                       fib |-> FibonacciNew(1, 1), calls |-> <<>>, rows |-> <<>>]
    /\ IdleControl
    /\ IdleData
    /\ IdleFlow
    /\ IdleSetup
    /\ IdleWorker
    /\ IdleBucket
    /\ IdleWindow
    /\ IdleMerge

\* one turn of the loop over the Fibonacci values: skip a value below
\* min_threads, stop at the first that is not below max_threads, and probe
\* any other: scaleup, wait_stable, the server sampler, a row
ScheduleNext ==
    /\ sched.pc = "loop"
    /\ LET r == FibonacciNext(sched.fib)
           i == r.item
       IN  IF i < sched.min_threads
           THEN sched' = [sched EXCEPT !.fib = r.fib]
           ELSE IF i >= sched.max_threads
           THEN sched' = [sched EXCEPT !.fib = r.fib, !.pc = "done"]
           ELSE sched' = [sched EXCEPT
                            !.fib = r.fib,
                            !.calls = @ \o <<<<"scaleup", i>>, <<"wait_stable", i>>,
                                             <<"sample", i>>>>,
                            !.rows = Append(@, i)]
    /\ UNCHANGED othersSchedule

NextSchedule == ScheduleNext

SpecSchedule == InitSchedule /\ [][NextSchedule]_vars

\* the Fibonacci values, as far as the ranges of the model reach
FibonacciValues ==
    <<1, 2, 3, 5, 8, 13, 21, 34, 55, 89, 144, 233, 377, 610, 987, 1597>>

\* the values at or above min that come before the first at or above max
LevelsOf(min, max) == SelectSeq(FibonacciValues, LAMBDA v : v >= min /\ v < max)

\* scaleup, wait_stable and one call of the server sampler for each level
RECURSIVE CallsOf(_)
CallsOf(levels) ==
    IF levels = <<>> THEN <<>>
    ELSE <<<<"scaleup", levels[1]>>, <<"wait_stable", levels[1]>>,
           <<"sample", levels[1]>>>> \o CallsOf(Tail(levels))

C16_RangeInclusive ==
    sched.pc = "done" =>
        \A k \in 1..Len(FibonacciValues) :
            (sched.min_threads <= FibonacciValues[k]
                /\ FibonacciValues[k] <= sched.max_threads)
            => \E j \in 1..Len(sched.rows) : sched.rows[j] = FibonacciValues[k]

(***************************************************************************)
(* The worker count over a run: the spec's scaleup(target) computes        *)
(* extra = target - current and leaves current = target.                   *)
(***************************************************************************)
\* the targets of the scaleup calls of the run so far, in order
ScaleupTargets ==
    LET scaleups == SelectSeq(sched.calls, LAMBDA made : made[1] = "scaleup")
    IN  [k \in 1..Len(scaleups) |-> scaleups[k][2]]

\* the worker count when the k-th scaleup is called
CurrentBefore(k) == IF k = 1 THEN 0 ELSE ScaleupTargets[k - 1]

MaxStampSteps == 7      \* how far after an instant a sample starts, in 100 ms

\* epoch milliseconds: 1970-01-01T00:00:00Z, 1983-08-11T10:07:53.856Z,
\* 2024-06-10T02:35:18.000Z and 2026-01-01T00:00:00Z
Instants == {<<0, 0, 0, 0>>, <<0, 100, 0, 0>>, <<0, 399, 65535, 65136>>,
             <<0, 411, 30426, 43008>>}

\* x + k for limbs x and a small k
RECURSIVE LimbsAdd(_, _)
LimbsAdd(x, k) ==
    IF x = <<>> THEN <<>>
    ELSE LET low == x[Len(x)] + k
         IN  LimbsAdd(SubSeq(x, 1, Len(x) - 1), low \div Limb) \o <<low % Limb>>

InitBucket ==
    /\ \E at \in Instants, a \in 0..MaxStampSteps, b \in 0..MaxStampSteps :
          /\ a <= b
          /\ stamps = [pc |-> "new", first |-> LimbsAdd(at, 100 * a),
                       second |-> LimbsAdd(at, 100 * b)]
    /\ IdleControl
    /\ IdleData
    /\ IdleFlow
    /\ IdleSetup
    /\ IdleWorker
    /\ IdleSchedule
    /\ IdleWindow
    /\ IdleMerge

\* both samples are turned into a ParallelSample
BucketStamp ==
    /\ stamps.pc = "new"
    /\ \E tx \in TxVals, wait \in UnitWaits, duration \in SampleDurations :
          stamps' = [stamps EXCEPT
             !.pc = "stamped",
             !.first = to_parallel_sample(Sample(stamps.first, tx, tx * wait, duration, 0)),
             !.second = to_parallel_sample(Sample(stamps.second, tx, tx * wait, duration, 0))]
                    @@ [first_start |-> stamps.first, second_start |-> stamps.second]
    /\ UNCHANGED othersBucket

NextBucket == BucketStamp

SpecBucket == InitBucket /\ [][NextBucket]_vars

\* x * k for limbs x and a small k; the carry out of the top limb is dropped
RECURSIVE LimbsMulLoop(_, _, _)
LimbsMulLoop(x, k, carry) ==
    IF x = <<>> THEN <<>>
    ELSE LET low == x[Len(x)] * k + carry
         IN  LimbsMulLoop(SubSeq(x, 1, Len(x) - 1), k, low \div Limb) \o <<low % Limb>>

\* x < y for limbs of one length
RECURSIVE LimbsLess(_, _)
LimbsLess(x, y) ==
    /\ x # <<>>
    /\ \/ Head(x) < Head(y)
       \/ Head(x) = Head(y) /\ LimbsLess(Tail(x), Tail(y))

\* the u32 b is floor(ms / 200): 200 b <= ms < 200 b + 200
IsBucketOf(b, ms) ==
    LET low == LimbsMulLoop(<<0, 0>> \o b, 200, 0)
    IN  /\ ~LimbsLess(ms, low)
        /\ LimbsLess(ms, LimbsAdd(low, 200))

\* C17: the bucket id of s.to_parallel_sample() is floor(s.start_ms / 200)
\* in full, so of two samples the one that starts later never has the
\* smaller bucket id.
C17_BucketIsFloor ==
    stamps.pc = "stamped" =>
        /\ IsBucketOf(stamps.first.timeslice, stamps.first_start)
        /\ IsBucketOf(stamps.second.timeslice, stamps.second_start)
        /\ ~LimbsLess(stamps.second.timeslice, stamps.first.timeslice)

\* while floor(start_ms / 200) fits 32 bits, until 1997-03-22, it is what
\* the code gives
EarlyBucketsAreFloors ==
    (stamps.pc = "stamped" /\ stamps.second_start[2] < 199) => C17_BucketIsFloor

(***************************************************************************)
(* The window as_results builds: a ParallelSamples collected up to the     *)
(* timeslice of the clock, then one call of as_results(min, max).          *)
(***************************************************************************)
MaxClock == 4       \* the latest timeslice of the clock

InitWindow ==
    /\ clock \in 0..MaxClock
    /\ collected = ParallelSamplesNew
    /\ built = [called |-> FALSE]
    /\ IdleControl
    /\ IdleData
    /\ IdleFlow
    /\ IdleSetup
    /\ IdleWorker
    /\ IdleSchedule
    /\ IdleBucket
    /\ IdleMerge

\* the sample of a timeslice up to the current one is added
WindowAdd ==
    /\ ~built.called
    /\ \E ts \in 0..clock, tx \in TxVals, wait \in UnitWaits :
          /\ ts \notin DOMAIN collected
          /\ collected' = ParallelSamplesAdd(collected,
                              ParallelSample(ts, tx, tx * wait, SampleDuration, 1))
    /\ UNCHANGED <<clock, built, othersWindow>>

\* as_results(min, max).  In timeslice 0 the subtraction current_timeslice()
\* - 1 panics in a debug build and wraps around in a release build
WindowAsResults ==
    /\ ~built.called
    /\ \E min \in 0..1, max \in 1..MaxWindow, build \in {"debug", "release"} :
          IF clock = 0 /\ build = "debug"
          THEN built' = [called |-> TRUE, outcome |-> "panic", min |-> min, max |-> max]
          ELSE built' = [called |-> TRUE, outcome |-> "window", min |-> min, max |-> max,
                         results |-> as_results(collected, min, max, clock).results]
    /\ UNCHANGED <<clock, collected, othersWindow>>

NextWindow == WindowAdd \/ WindowAsResults

SpecWindow == InitWindow /\ [][NextWindow]_vars

\* C18: every TestResult of the window as_results gives comes from a bucket
\* with id below current_bucket() - 1, and a collection all of whose buckets
\* are at or after the current bucket gives an empty window.
C18_OnlyCompletedBuckets ==
    (built.called /\ built.outcome = "window") =>
        /\ \A i \in 1..Len(built.results) :
              \E t \in DOMAIN collected :
                 /\ t < clock - 1
                 /\ built.results[i] = as_testresult(collected[t])
        /\ (\A t \in DOMAIN collected : t >= clock) => built.results = <<>>

\* the results of the buckets from id k on that as_results takes for
\* completed, by ascending id
RECURSIVE CompletedFrom(_)
CompletedFrom(k) ==
    IF k > clock THEN <<>>
    ELSE (IF k \in DOMAIN collected /\ k < previous_timeslice(clock)
          THEN <<as_testresult(collected[k])>> ELSE <<>>) \o CompletedFrom(k + 1)

\* the last n of a sequence
LastOf(n, q) == IF Len(q) <= n THEN q ELSE SubSeq(q, Len(q) - n + 1, Len(q))

\* C19: after any run of appends the window is no longer than max_len and
\* holds the results appended last, in the order of appending: as_results
\* gives the last max completed buckets by ascending bucket id.
C19_WindowKeepsLatest ==
    (built.called /\ built.outcome = "window") =>
        /\ Len(built.results) <= built.max
        /\ built.results = LastOf(built.max, CompletedFrom(0))

\* three completed buckets went into a window of two: the oldest was dropped
C19_Witness ==
    /\ built.called
    /\ built.outcome = "window"
    /\ built.max = 2
    /\ Len(CompletedFrom(0)) = 3
    /\ Len(built.results) = 2
    /\ collected[0].total_transactions # collected[2].total_transactions

(***************************************************************************)
(* Merging on the way to the controller: the workers of each consumer send *)
(* their samples in any interleaving, each consumer merges what a round of *)
(* receives brings and sends it on, the controller merges what arrives.    *)
(***************************************************************************)
MaxEmitted == 3         \* the samples all workers send
MergeConsumers == {1, 2}    \* the consumers that pass them on
MergeSlices == {0, 1}       \* the timeslices the samples start in
\* how long a sample took, in nanoseconds: Sample::end sets it to what the
\* clock says, so that any two samples may differ in it
MergeDurations == {100000000, 300000000}

\* the loop of ParallelSamples::append over the keys of samples left
RECURSIVE AppendLoop(_, _, _)
AppendLoop(pss, samples, keys) ==
    IF keys = <<>> THEN pss
    ELSE AppendLoop(ParallelSamplesAdd(pss, samples[keys[1]]), samples, Tail(keys))

\* ParallelSamples::append
ParallelSamplesAppend(pss, samples) ==
    AppendLoop(pss, samples, SortedKeys(DOMAIN samples))

\* the first n messages of a queue, appended to an accumulator one by one
RECURSIVE AppendAll(_, _, _)
AppendAll(pss, queue, n) ==
    IF n = 0 THEN pss
    ELSE AppendAll(ParallelSamplesAppend(pss, Head(queue)), Tail(queue), n - 1)

InitMerge ==
    /\ emitted = [c \in MergeConsumers |-> <<>>]
    /\ inbound = <<>>
    /\ accumulated = ParallelSamplesNew
    /\ history = EmptyBag
    /\ IdleControl
    /\ IdleData
    /\ IdleFlow
    /\ IdleSetup
    /\ IdleWorker
    /\ IdleSchedule
    /\ IdleBucket
    /\ IdleWindow

\* a worker of consumer c sends a sample: a ParallelSamples of one bucket
MergeEmit(c) ==
    /\ BagCardinality(history) < MaxEmitted
    /\ \E ts \in MergeSlices, tx \in TxVals, wait \in UnitWaits,
          duration \in MergeDurations :
          LET ps == ParallelSample(ts, tx, tx * wait, duration, 1)
          IN  /\ emitted' = [emitted EXCEPT
                                ![c] = Append(@, ParallelSamplesAdd(ParallelSamplesNew, ps))]
              /\ history' = history (+) SetToBag({ps})
    /\ UNCHANGED <<inbound, accumulated, othersMerge>>

\* one round of consumer c: it receives the first n messages of its
\* channel, appends each to its accumulator, and sends the accumulator
\* upstream if it holds anything
MergeRound(c) ==
    /\ \E n \in 1..Len(emitted[c]) :
          /\ inbound' = Append(inbound, AppendAll(ParallelSamplesNew, emitted[c], n))
          /\ emitted' = [emitted EXCEPT ![c] = SubSeq(@, n + 1, Len(@))]
    /\ UNCHANGED <<accumulated, history, othersMerge>>

\* the controller receives a message and appends it to its accumulator
MergeConsume ==
    /\ inbound # <<>>
    /\ accumulated' = ParallelSamplesAppend(accumulated, Head(inbound))
    /\ inbound' = Tail(inbound)
    /\ UNCHANGED <<emitted, history, othersMerge>>

NextMerge ==
    \/ \E c \in MergeConsumers : MergeEmit(c)
    \/ \E c \in MergeConsumers : MergeRound(c)
    \/ MergeConsume

SpecMerge == InitMerge /\ [][NextMerge]_vars

\* the sum of a field over the samples of a bag, each as often as it is held
RECURSIVE BagSum(_, _, _)
BagSum(B, S, field) ==
    IF S = {} THEN 0
    ELSE LET e == CHOOSE x \in S : TRUE
         IN  CopiesIn(e, B) * e[field] + BagSum(B, S \ {e}, field)

\* the samples of a bag that start in timeslice t
InSlice(B, t) == {e \in BagToSet(B) : e.timeslice = t}

\* what a bag of samples comes to, bucket by bucket
TotalsOf(B) ==
    [t \in {e.timeslice : e \in BagToSet(B)} |->
        ParallelSample(t,
            BagSum(B, InSlice(B, t), "total_transactions"),
            BagSum(B, InSlice(B, t), "total_waits"),
            BagSum(B, InSlice(B, t), "total_duration"),
            BagSum(B, InSlice(B, t), "num_samples"))]

\* everything the workers sent has reached the controller
AllArrived ==
    /\ inbound = <<>>
    /\ \A c \in DOMAIN emitted : emitted[c] = <<>>

\* C20: what the controller has accumulated once the samples have arrived
\* is given by the bag of samples alone, whatever the order in which the
\* workers sent them and however the consumers batched them: for every
\* bucket the sums of transactions, waits and durations and the count.
C20_MergeOrderFree ==
    AllArrived => accumulated = TotalsOf(history)

\* three samples, two of them of one bucket with different durations, have
\* arrived by way of both consumers
C20_Witness ==
    /\ AllArrived
    /\ BagCardinality(history) = 3
    /\ DOMAIN accumulated = {0, 1}
    /\ accumulated[0].num_samples = 2
    /\ accumulated[0].total_duration = 400000000

(***************************************************************************)
(* ParallelSample and ParallelSamples as data: ParallelSample::add with    *)
(* its Result, and a ParallelSamples with the fields of its iterator,      *)
(* built on with add, append and clone and walked with next in any order.  *)
(***************************************************************************)
MaxAdded == 3               \* the samples added to the two collections

CombineError == "trying to combine samples of different timeslices"

\* the timeslices, sample counts and durations of the samples handed in
DataSlices == {0, 1, 2}
DataCounts == {1, 2}
DataDurations == {100000000, 300000000}

\* the ParallelSamples handed to ParallelSample::add
DataSamples ==
    {ParallelSample(ts, tx, tx * wait, duration, num) :
        ts \in {0, 1}, tx \in TxVals, wait \in UnitWaits,
        duration \in DataDurations, num \in DataCounts}

\* an add that does not look at the timeslices
ps_add_unchecked(self, samples) ==
    [ok |-> TRUE, err |-> "", self |-> ParallelSampleAdd(self, samples)]

\* ParallelSample::add with its Result: Err and self as it was for another
\* timeslice, Ok and the sums otherwise
ps_add(self, samples) ==
    IF self.timeslice # samples.timeslice
    THEN [ok |-> FALSE, err |-> CombineError, self |-> self]
    ELSE [ok |-> TRUE, err |-> "", self |-> ParallelSampleAdd(self, samples)]

\* ParallelSamples::new, all three fields
CollNew ==
    [parallel_samples |-> ParallelSamplesNew, iterator_keys |-> <<>>,
     current |-> 0, panicked |-> FALSE]

\* ParallelSamples::add on the struct: the unwrap of the entry's add panics
\* on Err
CollAdd(c, ps) ==
    IF /\ ps.timeslice \in DOMAIN c.parallel_samples
       /\ ~ps_add(c.parallel_samples[ps.timeslice], ps).ok
    THEN [c EXCEPT !.panicked = TRUE]
    ELSE [c EXCEPT !.parallel_samples = ParallelSamplesAdd(@, ps)]

\* the loop of append over the keys of the map handed in
RECURSIVE CollAppendLoop(_, _, _)
CollAppendLoop(c, samples, keys) ==
    IF keys = <<>> \/ c.panicked THEN c
    ELSE CollAppendLoop(CollAdd(c, samples[keys[1]]), samples, Tail(keys))

\* an append that passes over the first entry of the map handed in
CollAppendSkipsFirst(c, d) ==
    LET keys == SortedKeys(DOMAIN d.parallel_samples)
    IN  CollAppendLoop(c, d.parallel_samples,
                       IF keys = <<>> THEN keys ELSE Tail(keys))

\* ParallelSamples::append: self with every entry of samples added
CollAppend(c, d) ==
    CollAppendLoop(c, d.parallel_samples, SortedKeys(DOMAIN d.parallel_samples))

\* the loop of clone: insert every entry into a new ParallelSamples
RECURSIVE CollCloneLoop(_, _, _)
CollCloneLoop(pss, from, keys) ==
    IF keys = <<>> THEN pss
    ELSE CollCloneLoop(
            [t \in DOMAIN pss \cup {keys[1]} |->
                IF t = keys[1] THEN from[keys[1]] ELSE pss[t]],
            from, Tail(keys))

\* ParallelSamples::clone
CollClone(c) ==
    [CollNew EXCEPT !.parallel_samples =
        CollCloneLoop(ParallelSamplesNew, c.parallel_samples,
                      SortedKeys(DOMAIN c.parallel_samples))]

\* the keys and the position next() goes on with: the keys are taken anew,
\* and the position set back, when their number is not that of the entries
Refreshed(c) ==
    IF Cardinality(DOMAIN c.parallel_samples) # Len(c.iterator_keys)
    THEN [c EXCEPT !.iterator_keys = SortedKeys(DOMAIN c.parallel_samples),
                   !.current = 0]
    ELSE c

\* a next that moves on by two
CollNextSkips(c) ==
    LET r == Refreshed(c)
    IN  IF r.current >= Cardinality(DOMAIN r.parallel_samples)
        THEN [coll |-> r, item |-> None]
        ELSE [coll |-> [r EXCEPT !.current = @ + 2],
              item |-> Some(r.parallel_samples[r.iterator_keys[r.current + 1]])]

\* Iterator::next of ParallelSamples (iterator_keys is indexed from 0 in the
\* source, from 1 here); a key of iterator_keys that the map does not hold
\* gives None
CollNext(c) ==
    LET r == Refreshed(c)
    IN  IF r.current >= Cardinality(DOMAIN r.parallel_samples)
        THEN [coll |-> r, item |-> None]
        ELSE IF r.iterator_keys[r.current + 1] \notin DOMAIN r.parallel_samples
        THEN [coll |-> r, item |-> None]
        ELSE [coll |-> [r EXCEPT !.current = @ + 1],
              item |-> Some(r.parallel_samples[r.iterator_keys[r.current + 1]])]

\* the iterator of a collection is as new() left it
Untouched(c) == c.current = 0 /\ c.iterator_keys = <<>>

InitCollection ==
    /\ pair = [called |-> FALSE]
    /\ coll = CollNew
    /\ donor = CollNew
    /\ seen = [coll |-> EmptyBag, donor |-> EmptyBag]
    /\ yielded = <<>>
    /\ lastop = [op |-> "new", fresh |-> TRUE]
    /\ IdleControl
    /\ IdleSampling
    /\ IdleFlow
    /\ IdleSetup
    /\ IdleChannel
    /\ IdleSampler
    /\ IdleFibonacci

\* self.add(samples) for any two ParallelSamples, the collections aside
PairAdd ==
    /\ lastop.op = "new"
    /\ seen.donor = EmptyBag
    /\ \E a \in DataSamples, b \in DataSamples :
          pair' = [called |-> TRUE, self |-> a, samples |-> b, result |-> ps_add(a, b)]
    /\ UNCHANGED <<coll, donor, seen, yielded, lastop, othersCollection>>

\* add(sample) on the collection or on the one to be appended
CollectionAdd ==
    /\ ~pair.called
    /\ ~coll.panicked /\ ~donor.panicked
    /\ BagCardinality(seen.coll) + BagCardinality(seen.donor) < MaxAdded
    /\ \E ts \in DataSlices, tx \in TxVals, wait \in UnitWaits,
          duration \in DataDurations :
          LET ps == ParallelSample(ts, tx, tx * wait, duration, 1)
          IN  \/ /\ coll' = CollAdd(coll, ps)
                 /\ seen' = [seen EXCEPT !.coll = @ (+) SetToBag({ps})]
                 /\ yielded' = <<>>
                 /\ lastop' = [op |-> "add", fresh |-> Untouched(coll)]
                 /\ UNCHANGED donor
              \/ /\ donor' = CollAdd(donor, ps)
                 /\ seen' = [seen EXCEPT !.donor = @ (+) SetToBag({ps})]
                 /\ UNCHANGED <<coll, yielded, lastop>>
    /\ UNCHANGED <<pair, othersCollection>>

\* coll = coll.append(donor): the donor is moved into the call
CollectionAppend ==
    /\ ~pair.called
    /\ ~coll.panicked /\ ~donor.panicked
    /\ lastop.op # "append"
    /\ coll' = CollAppend(coll, donor)
    /\ donor' = CollNew
    /\ seen' = [coll |-> seen.coll (+) seen.donor, donor |-> EmptyBag]
    /\ yielded' = <<>>
    /\ lastop' = [op |-> "append", fresh |-> Untouched(coll),
                  before |-> coll.parallel_samples, samples |-> donor.parallel_samples]
    /\ UNCHANGED <<pair, othersCollection>>

\* coll = coll.clone()
CollectionClone ==
    /\ ~pair.called
    /\ ~coll.panicked
    /\ lastop.op # "clone"
    /\ coll' = CollClone(coll)
    /\ yielded' = <<>>
    /\ lastop' = [op |-> "clone", fresh |-> TRUE]
    /\ UNCHANGED <<pair, donor, seen, othersCollection>>

\* coll.next()
CollectionNext ==
    /\ ~pair.called
    /\ ~coll.panicked
    /\ ~(lastop.op = "next" /\ lastop.item = None)
    /\ LET r == CollNext(coll)
       IN  /\ coll' = r.coll
           /\ yielded' = IF IsSome(r.item) THEN Append(yielded, Unwrap(r.item))
                         ELSE yielded
           /\ lastop' = [op |-> "next", fresh |-> lastop.fresh, item |-> r.item]
    /\ UNCHANGED <<pair, donor, seen, othersCollection>>

NextCollection ==
    \/ PairAdd
    \/ CollectionAdd
    \/ CollectionAppend
    \/ CollectionClone
    \/ CollectionNext

SpecCollection == InitCollection /\ [][NextCollection]_vars

\* C21: ParallelSample::add with a ParallelSample of another timeslice
\* returns the error "trying to combine samples of different timeslices"
\* and leaves the receiver as it was; with one of the same timeslice it
\* succeeds and adds the transactions, the waits, the durations and the
\* sample counts.
C21_AddChecksTimeslice ==
    pair.called =>
        IF pair.self.timeslice # pair.samples.timeslice
        THEN /\ ~pair.result.ok
             /\ pair.result.err = "trying to combine samples of different timeslices"
             /\ pair.result.self = pair.self
        ELSE /\ pair.result.ok
             /\ pair.result.self.timeslice = pair.self.timeslice
             /\ pair.result.self.total_transactions =
                   pair.self.total_transactions + pair.samples.total_transactions
             /\ pair.result.self.total_waits =
                   pair.self.total_waits + pair.samples.total_waits
             /\ pair.result.self.total_duration =
                   pair.self.total_duration + pair.samples.total_duration
             /\ pair.result.self.num_samples =
                   pair.self.num_samples + pair.samples.num_samples

\* an add across two timeslices was refused
C21_Witness ==
    /\ pair.called
    /\ pair.self.timeslice = 1
    /\ pair.samples.timeslice = 0
    /\ ~pair.result.ok

\* C22: after any adds and appends a collection holds one ParallelSample
\* for every timeslice seen, under that timeslice, with the sums over all
\* that was added for it, and no add panicked on a mismatch.
C22_OnePerBucket ==
    /\ ~coll.panicked
    /\ ~donor.panicked
    /\ coll.parallel_samples = TotalsOf(seen.coll)
    /\ donor.parallel_samples = TotalsOf(seen.donor)

\* two samples of one timeslice, added to different collections, were
\* merged by an append next to a sample of another timeslice
C22_Witness ==
    /\ lastop.op = "append"
    /\ DOMAIN lastop.before = {0}
    /\ DOMAIN lastop.samples = {0, 2}
    /\ DOMAIN coll.parallel_samples = {0, 2}
    /\ coll.parallel_samples[0].num_samples = 2

\* C23: appending a ParallelSamples to an empty one gives a collection
\* equal to it: the timeslices, the sums and the sample counts.
C23_AppendToEmpty ==
    (lastop.op = "append" /\ DOMAIN lastop.before = {}) =>
        coll.parallel_samples = lastop.samples

\* a collection of two timeslices, one of them with two samples, was
\* appended to an empty one
C23_Witness ==
    /\ lastop.op = "append"
    /\ DOMAIN lastop.before = {}
    /\ DOMAIN lastop.samples = {1, 2}
    /\ lastop.samples[1].num_samples = 2
    /\ DOMAIN coll.parallel_samples = {1, 2}

\* the first n of a sequence
FirstOf(n, q) == SubSeq(q, 1, n)

\* the entries of a map in the ascending order of their keys
RECURSIVE EntriesOf(_, _)
EntriesOf(pss, keys) ==
    IF keys = <<>> THEN <<>>
    ELSE <<pss[keys[1]]>> \o EntriesOf(pss, Tail(keys))

\* C24: walking a ParallelSamples that add, append and clone built gives
\* every timeslice it holds once, in strictly ascending order, so that the
\* walk ends after as many items as there are timeslices.
C24_IterationAscending ==
    lastop.fresh =>
        LET all == EntriesOf(coll.parallel_samples,
                             SortedKeys(DOMAIN coll.parallel_samples))
        IN  /\ Len(yielded) <= Len(all)
            /\ yielded = FirstOf(Len(yielded), all)
            /\ (lastop.op = "next" /\ lastop.item = None) => yielded = all

\* two collections of one timeslice each, the later timeslice in the first,
\* were appended, and the walk gave both and ended
C24_Witness ==
    /\ lastop.op = "next"
    /\ lastop.fresh
    /\ lastop.item = None
    /\ Len(yielded) = 2
    /\ yielded[1].timeslice < yielded[2].timeslice
    /\ BagCardinality(seen.coll) = 2

(***************************************************************************)
(* The channel of a consumer: its workers send on clones of one Sender,    *)
(* each from its own loop, one sample after the other; the consumer takes  *)
(* the messages off the Receiver.  A message carries no worker id; the     *)
(* model numbers the messages to tell them apart.                          *)
(***************************************************************************)
MaxSent == 3                \* the samples a worker sends
ChannelWorkers == {0, 1}    \* the workers of the consumer

\* Sender::send: the message is queued behind those sent before
ChannelSend(queue, msg) == Append(queue, msg)

\* a receive that takes the message sent last
ChannelRecvNewest(queue) ==
    IF queue = <<>>
    THEN [msg |-> None, rest |-> queue]
    ELSE [msg |-> Some(queue[Len(queue)]), rest |-> SubSeq(queue, 1, Len(queue) - 1)]

\* Receiver::recv_timeout: the oldest message, or Err when none came in time
ChannelRecv(queue) ==
    IF queue = <<>>
    THEN [msg |-> None, rest |-> queue]
    ELSE [msg |-> Some(Head(queue)), rest |-> Tail(queue)]

InitChannel ==
    /\ wire = <<>>
    /\ numbered = [w \in ChannelWorkers |-> 0]
    /\ received = <<>>
    /\ IdleControl
    /\ IdleSampling
    /\ IdleFlow
    /\ IdleSetup
    /\ IdleCollection
    /\ IdleSampler
    /\ IdleFibonacci

\* worker w ends a sample and sends it: a ParallelSamples of one entry
ChannelEmit(w) ==
    /\ numbered[w] < MaxSent
    /\ \E tx \in TxVals, wait \in UnitWaits :
          LET ps == ParallelSample(numbered[w], tx, tx * wait, SampleDuration, 1)
          IN  wire' = ChannelSend(wire,
                         [worker |-> w, number |-> numbered[w] + 1,
                          samples |-> ParallelSamplesAdd(ParallelSamplesNew, ps)])
    /\ numbered' = [numbered EXCEPT ![w] = @ + 1]
    /\ UNCHANGED <<received, othersChannel>>

\* one recv_timeout of the consumer's round: Ok with a message, which the
\* consumer merges, or Err, which it passes over
ChannelReceive ==
    /\ LET r == ChannelRecv(wire)
       IN  /\ wire' = r.rest
           /\ received' = IF IsSome(r.msg) THEN Append(received, Unwrap(r.msg))
                          ELSE received
    /\ UNCHANGED <<numbered, othersChannel>>

NextChannel ==
    \/ \E w \in ChannelWorkers : ChannelEmit(w)
    \/ ChannelReceive

SpecChannel == InitChannel /\ [][NextChannel]_vars

\* C25: the samples of a worker reach its consumer in the order in which
\* the worker sent them: none overtakes an earlier one of the same worker.
C25_WorkerOrderKept ==
    \A i, j \in 1..Len(received) :
        (i < j /\ received[i].worker = received[j].worker)
            => received[i].number < received[j].number

\* the consumer received two samples of one worker with a sample of the
\* other worker between them, while more were on the way
C25_Witness ==
    /\ Len(received) = 3
    /\ received[1].worker = received[3].worker
    /\ received[2].worker # received[1].worker
    /\ received[1].number = 1
    /\ received[3].number = 2
    /\ Len(wire) >= 2

(***************************************************************************)
(* The relative deviations verify looks at, over a mean of zero.           *)
(***************************************************************************)
\* p is 0 for first = 0 and 100 * second / first otherwise (no value has a
\* sign here): p^2 * first^2 = 10000 * second^2
IsPercentOf(p, first, second) ==
    /\ ~F64IsNeg(p)
    /\ IF F64IsZero(first)
       THEN F64IsZero(p)
       ELSE F64Mul(F64Square(p), F64Square(first))
               = F64Mul(F64(10000), F64Square(second))

\* C26: in verify the relative deviation of the tps, and that of the
\* latency, is percent_of(mean, deviation): 0 when the mean is zero and
\* 100 * deviation / mean otherwise; a deviation over a mean of zero counts
\* as within [0, spread), so that the verdict is then that of the other one.
C26_ZeroMeanIsWithin ==
    (verified /\ Len(testresults.results) >= testresults.min
              /\ Len(testresults.results) > 0) =>
        LET mn == Unwrap(mean(testresults))
            sd == Unwrap(std_deviation_absolute(testresults))
            mean_us == F64(num_microseconds(mn.latency))
            sd_us == F64(num_microseconds(sd.latency))
        IN  /\ IsPercentOf(percent_of(mn.tps, sd.tps), mn.tps, sd.tps)
            /\ IsPercentOf(percent_of(mean_us, sd_us), mean_us, sd_us)
            /\ (mn.tps.num = 0 /\ spread > 0) =>
                  (IsSome(verdict) <=> RelStdDevLatBelow(testresults, spread))
            /\ (num_microseconds(mn.latency) = 0 /\ spread > 0) =>
                  (IsSome(verdict) <=> RelStdDevTpsBelow(testresults, spread))

\* a full window of results without a transaction, their latencies unequal,
\* was verified and found stable
C26_Witness ==
    /\ verified
    /\ IsSome(verdict)
    /\ Len(testresults.results) = 3
    /\ \A i \in 1..3 : testresults.results[i].tps.num = 0
    /\ testresults.results[1].latency # testresults.results[3].latency
    /\ testresults.min = 3

(***************************************************************************)
(* The statement of a unit of work (SpecWorker).                           *)
(***************************************************************************)
\* C27: the statement of every unit of work is the configured query when
\* that is not empty, and the update of the worker's row only when it is
\* empty; its parameter is the worker's id.
C27_ConfiguredQueryRuns ==
    (Sampled /\ it.executed > 0) =>
        /\ it.statement = IF wk.query # "" THEN wk.query
                          ELSE "update pg_tps_optimizer set id=$1 where id=$1"
        /\ it.param = wk.id

\* the parameter of the statement is the worker's id
StatementParamIsId == (Sampled /\ it.executed > 0) => it.param = wk.id

(***************************************************************************)
(* Workers whose initialization failed (SpecFleet).                        *)
(***************************************************************************)
\* the workers of a set that did not fail in initialize()
Initialized(ids) == {w \in ids : w \in DOMAIN workers /\ workers[w].pc # "failed"}

\* the ids of the worker threads a consumer holds
ThreadsOf(c) == {c.threads[i] : i \in 1..Len(c.threads)}

\* C28: an error in a worker's initialization reaches the parent that
\* spawned it: neither its consumer nor the controller counts a worker
\* whose initialization failed among the running workers.
C28_FailedInitNotCounted ==
    /\ fleet.num_threads <= Cardinality(Initialized(DOMAIN workers))
    /\ \A i \in 1..Len(fleet.consumers) :
          fleet.consumers[i].num_threads
              <= Cardinality(Initialized(ThreadsOf(fleet.consumers[i])))

(***************************************************************************)
(* PgSampler (pg_sampler): the sample query is run with the lsn of         *)
(* `previous` as its parameter.  A log-sequence position is kept as the    *)
(* number of bytes it stands for, "0/0" as 0; the program hands the        *)
(* server's text back as it got it.                                        *)
(***************************************************************************)
MaxQueries == 4             \* the calls of next() that return a row

\* the wal the server wrote between two calls, in bytes, and where its
\* position stood when the sampler was made
WalGrowth == {0, 8, 24}
WalStart == {16, 64}
\* the transactions the server counted between two calls
TransactGrowth == {0, 5}

\* TransactDataSample::new; the moment is the number of the call made
TransactDataSampleNew ==
    [samplemoment |-> 0, lsn |-> 0, wal_bytes |-> 0, num_transactions |-> 0]

\* PgSampler::new
PgSamplerNew == [previous |-> TransactDataSampleNew, latest |-> TransactDataSampleNew]

\* the parameter next() binds: self.previous.lsn
BindParameter(s) == s.previous.lsn

\* SAMPLE_QUERY on a server at position pos: the position, and the bytes
\* from the position bound to it
SampleQuery(bind, pos, moment, transacts) ==
    [samplemoment |-> moment, lsn |-> pos, wal_bytes |-> pos - bind,
     num_transactions |-> transacts]

\* PgSampler::next when the query returned `row`
PgSamplerNext(s, row) == [previous |-> s.latest, latest |-> row]

InitSampler ==
    /\ pgs = PgSamplerNew
    /\ position \in WalStart
    /\ queries = <<>>
    /\ IdleControl
    /\ IdleSampling
    /\ IdleFlow
    /\ IdleSetup
    /\ IdleCollection
    /\ IdleChannel
    /\ IdleFibonacci

\* next(): the server has written some wal since the last row; the query
\* returns its row, or an error that next() hands on with `?` before it has
\* changed a field
SamplerNext ==
    /\ Len(queries) < MaxQueries
    /\ \E grown \in WalGrowth, transacts \in TransactGrowth, ok \in BOOLEAN :
          LET bind == BindParameter(pgs)
              row == SampleQuery(bind, position + grown, Len(queries) + 1,
                                 pgs.latest.num_transactions + transacts)
          IN  IF ok
              THEN /\ position' = position + grown
                   /\ pgs' = PgSamplerNext(pgs, row)
                   /\ queries' = Append(queries, [bind |-> bind, row |-> row])
              ELSE UNCHANGED <<pgs, queries, position>>
    /\ UNCHANGED othersSampler

NextSampler == SamplerNext

SpecSampler == InitSampler /\ [][NextSampler]_vars

\* C29: the first call of the sampler binds "0/0"; every later call binds
\* the position the call before it returned, so that the wal bytes of each
\* row are those written since the sample before it.
C29_BindsPreviousPosition ==
    \A i \in 1..Len(queries) :
        IF i = 1
        THEN queries[i].bind = 0
        ELSE /\ queries[i].bind = queries[i - 1].row.lsn
             /\ queries[i].row.wal_bytes = queries[i].row.lsn - queries[i - 1].row.lsn

\* every call binds the position returned two calls before it, and "0/0"
\* when there is no such call
BindsPositionBeforeLast ==
    \A i \in 1..Len(queries) :
        queries[i].bind = IF i <= 2 THEN 0 ELSE queries[i - 2].row.lsn

(***************************************************************************)
(* Fibonacci (fibonacci) in the width of its fields: curr and next are     *)
(* u32, two limbs each, and curr + next is a u32 addition, which panics on *)
(* overflow in a debug build and wraps in a release build.                 *)
(***************************************************************************)
MaxTaken == 47              \* the calls of next() on one iterator

Builds == {"debug", "release"}

\* the (curr, next) an iterator is made with; (1, 1) is that of the program
FibSeeds == {<<1, 1>>, <<0, 1>>, <<2, 1>>}

\* a small number as a u32
U32(k) == <<0, k>>

\* x + y for two u32: the low 32 bits of the sum, and whether it passed them
U32Add(x, y) ==
    LET low == x[2] + y[2]
        high == x[1] + y[1] + low \div Limb
    IN  [value |-> <<high % Limb, low % Limb>>, overflow |-> high >= Limb]

\* Fibonacci::new
FibonacciNewU32(curr, next) == [curr |-> U32(curr), next |-> U32(next)]

\* Fibonacci::next: new_next = curr + next; curr = next; next = new_next;
\* Some(curr)
FibonacciNextU32(f, build) ==
    LET new_next == U32Add(f.curr, f.next)
    IN  IF new_next.overflow /\ build = "debug"
        THEN [panicked |-> TRUE, fib |-> f, item |-> None]
        ELSE [panicked |-> FALSE,
              fib |-> [curr |-> f.next, next |-> new_next.value],
              item |-> Some(f.next)]

InitFibonacci ==
    /\ \E seed \in FibSeeds, build \in Builds :
          fibo = [fib |-> FibonacciNewU32(seed[1], seed[2]), seed |-> seed,
                  build |-> build, calls |-> 0, panicked |-> FALSE]
    /\ items = <<>>
    /\ IdleControl
    /\ IdleSampling
    /\ IdleFlow
    /\ IdleSetup
    /\ IdleCollection
    /\ IdleChannel
    /\ IdleSampler

\* one more item is taken
FibonacciTake ==
    /\ ~fibo.panicked
    /\ fibo.calls < MaxTaken
    /\ LET r == FibonacciNextU32(fibo.fib, fibo.build)
       IN  /\ fibo' = [fibo EXCEPT !.fib = r.fib, !.calls = @ + 1,
                                   !.panicked = r.panicked]
           /\ items' = IF IsSome(r.item) THEN Append(items, Unwrap(r.item)) ELSE items
    /\ UNCHANGED othersFibonacci

NextFibonacci == FibonacciTake

SpecFibonacci == InitFibonacci /\ [][NextFibonacci]_vars

\* x + y for two u32 as a number of three limbs, nothing cut off
WideSum(x, y) ==
    LET low == x[2] + y[2]
        high == x[1] + y[1] + low \div Limb
    IN  <<high \div Limb, high % Limb, low % Limb>>

\* the first n items obey the rule of the sequence seeded with (1, 1): the
\* first is 1, the second 2, every later one the sum of the two before it,
\* and each is above the one before it
FibonacciUpTo(n) ==
    \A k \in 1..n :
        /\ k = 1 => items[k] = U32(1)
        /\ k = 2 => items[k] = U32(2)
        /\ k >= 3 => <<0>> \o items[k] = WideSum(items[k - 1], items[k - 2])
        /\ k >= 2 => LimbsLess(items[k - 1], items[k])

\* C30: Fibonacci::new(1,1) yields 1, 2, 3, 5, 8, ...: every value is the
\* sum of the two before it in the sequence seeded with (1,1), the values
\* are strictly increasing, n calls yield n values, and the first five sum
\* to 19 and end in 8.
C30_FibonacciSequence ==
    fibo.seed = <<1, 1>> =>
        /\ FibonacciUpTo(Len(items))
        /\ ~fibo.panicked
        /\ Len(items) = fibo.calls
        /\ Len(items) >= 5 =>
              /\ items[5] = U32(8)
              /\ items[1][2] + items[2][2] + items[3][2] + items[4][2] + items[5][2] = 19

\* the sequence is right as long as curr + next fits the u32: for the first
\* 45 calls, which all return, and for the 46th item of a release build
FibonacciWhileItFits ==
    fibo.seed = <<1, 1>> =>
        /\ FibonacciUpTo(Min(Len(items), 46))
        /\ fibo.calls <= 45 => (~fibo.panicked /\ Len(items) = fibo.calls)
        /\ Len(items) >= 5 => items[5] = U32(8)

\* the ids of the workers all consumers of the controller spawned, consumer
\* by consumer
RECURSIVE SpawnedIds(_)
SpawnedIds(consumers) ==
    IF consumers = <<>> THEN <<>>
    ELSE consumers[1].threads \o SpawnedIds(Tail(consumers))

Digits == <<"0", "1", "2", "3", "4", "5", "6", "7", "8", "9">>

IsDigit(c) == \E d \in 1..10 : Digits[d] = c

DigitOf(c) == (CHOOSE d \in 1..10 : Digits[d] = c) - 1

\* Regex::new(r"\d+"), find_iter: the maximal runs of digits, left to right
RECURSIVE FindIter(_, _)
FindIter(str, run) ==
    LET ended == IF run = <<>> THEN <<>> ELSE <<run>>
    IN  IF str = <<>> THEN ended
        ELSE IF IsDigit(Head(str)) THEN FindIter(Tail(str), Append(run, Head(str)))
        ELSE ended \o FindIter(Tail(str), <<>>)

\* digits.as_str().parse::<u32>(): digit by digit in 32 bits, an error when
\* the value passes 2^32 - 1
RECURSIVE ParseLoop(_, _)
ParseLoop(digits, value) ==
    IF digits = <<>> THEN Some(value)
    ELSE LET low == value[2] * 10 + DigitOf(Head(digits))
             high == value[1] * 10 + low \div Limb
         IN  IF high >= Limb THEN None
             ELSE ParseLoop(Tail(digits), <<high, low % Limb>>)

ParseU32(digits) == ParseLoop(digits, <<0, 0>>)

\* filter_map(parse().ok()): the runs as range_min_max(found) takes them, -1
\* for a run whose parse() fails
Found(str) ==
    LET runs == FindIter(str, <<>>)
    IN  [k \in 1..Len(runs) |->
            LET parsed == ParseU32(runs[k])
            IN  IF parsed = None THEN -1 ELSE parsed[1][1] * Limb + parsed[1][2]]

\* Params::range_min_max on the range string
params_range_min_max(str) == range_min_max(Found(str))

\* env::var(key)
env_var(env, key) == IF key \in DOMAIN env THEN Some(env[key]) ELSE None

\* get_env_str with the environment looked up before val
get_env_str_env_first(val, env, env_key, default) ==
    IF IsSome(env_var(env, env_key)) THEN env_var(env, env_key)[1]
    ELSE IF val # <<>> THEN val
    ELSE default

\* get_env_str
get_env_str(val, env, env_key, default) ==
    IF val # <<>> THEN val
    ELSE IF IsSome(env_var(env, env_key)) THEN env_var(env, env_key)[1]
    ELSE default

RangeKey == "PGTPSRANGE"
QueryKey == "PGTPSQUERY"
RangeDefault == <<"1", ":", "1", "0", "0", "0">>
QueryDefault == <<"s", "e", "l", "e", "c", "t", " ", "*", " ", "f", "r", "o", "m", " ", "p", "g", "_", "t", "a", "b", "l", "e", "s">>

\* range strings of the command line
RangeInputs ==
    { <<>>, <<"5", "0">>, <<"2", "0", ":", "2", "0", "0", ":">>, <<"8">>, <<"4", "-", "8", "-", "5", "0">>, <<"0", "0", "7">>, <<"1", ".", ".", "5">>, <<"m", "a", "x">>,
      <<"5", ":", "9", "9", "9", "9", "9", "9", "9", "9", "9", "9", "9">>, <<"4", "2", "9", "4", "9", "6", "7", "2", "9", "6">>, <<"9", "9", "9", "9", "9", "9", "9", "9", "9", "9", "9", ":", "8", ":", "4">> }

\* values of the environment
EnvValues == { <<>>, <<"2", ":", "2", "0">>, <<"5", ":", "4", "2", "9", "4", "9", "6", "7", "2", "9", "6">> }

EnvKeys == {RangeKey, QueryKey}

Environments == UNION {[keys -> EnvValues] : keys \in SUBSET EnvKeys}

InitParams ==
    /\ \E r \in RangeInputs, env \in Environments :
          params = [pc |-> "from_args", range |-> r, env |-> env]
    /\ answer = [op |-> "none"]
    /\ IdleControl
    /\ IdleSampling
    /\ IdleData
    /\ IdleFlow
    /\ IdleDsn

\* a call of get_env_str on the range of the command line
ParamsGetEnvStr ==
    /\ params.pc = "from_args"
    /\ \E key \in EnvKeys, default \in {RangeDefault, QueryDefault} :
          answer' = [op |-> "get_env_str", val |-> params.range, key |-> key,
                     default |-> default,
                     value |-> get_env_str(params.range, params.env, key, default)]
    /\ UNCHANGED <<params, othersParams>>

\* get_args: args.range = get_env_str(&args.range, "PGTPSRANGE", "1:1000")
ParamsGetArgs ==
    /\ params.pc = "from_args"
    /\ params' = [params EXCEPT
                    !.pc = "args",
                    !.range = get_env_str(params.range, params.env, RangeKey, RangeDefault)]
    /\ answer' = [op |-> "get_args", val |-> params.range]
    /\ UNCHANGED othersParams

\* args.range_min_max()
ParamsRangeMinMax ==
    /\ params.pc = "args"
    /\ answer.op # "range_min_max"
    /\ answer' = [op |-> "range_min_max", range |-> params.range,
                  value |-> params_range_min_max(params.range)]
    /\ UNCHANGED <<params, othersParams>>

NextParams == ParamsGetEnvStr \/ ParamsGetArgs \/ ParamsRangeMinMax

SpecParams == InitParams /\ [][NextParams]_vars

\* the decimal numeral of a number, and a run of digits less its leading zeros
RECURSIVE Numeral(_)
Numeral(n) ==
    IF n < 10 THEN <<Digits[n + 1]>> ELSE Append(Numeral(n \div 10), Digits[(n % 10) + 1])

RECURSIVE Significant(_)
Significant(run) ==
    IF Len(run) > 1 /\ Head(run) = "0" THEN Significant(Tail(run)) ELSE run

IsNumber(n, run) == Numeral(n) = Significant(run)

\* C31: range_min_max gives the first and last integers the range string
\* contains: (1, 1000) when it contains none, (1, n) when it contains just n,
\* (first, last) when it contains two or more; "" gives (1, 1000), "50"
\* gives (1, 50), "20:200:" gives (20, 200).
C31_RangeFirstLast ==
    answer.op = "range_min_max" =>
        LET integers == FindIter(answer.range, <<>>)
            n == Len(integers)
        IN  /\ n = 0 => answer.value = <<1, 1000>>
            /\ n = 1 => answer.value[1] = 1 /\ IsNumber(answer.value[2], integers[1])
            /\ n >= 2 => /\ IsNumber(answer.value[1], integers[1])
                         /\ IsNumber(answer.value[2], integers[n])
            /\ answer.range = <<>> => answer.value = <<1, 1000>>
            /\ answer.range = <<"5", "0">> => answer.value = <<1, 50>>
            /\ answer.range = <<"2", "0", ":", "2", "0", "0", ":">> => answer.value = <<20, 200>>

\* the same of the integers that fit 32 bits, which are the ones parse() takes
FitsU32(run) == ParseU32(run) # None

RangeFirstLastThatFit ==
    answer.op = "range_min_max" =>
        LET integers == SelectSeq(FindIter(answer.range, <<>>), FitsU32)
            n == Len(integers)
        IN  /\ n = 0 => answer.value = <<1, 1000>>
            /\ n = 1 => answer.value[1] = 1 /\ IsNumber(answer.value[2], integers[1])
            /\ n >= 2 => /\ IsNumber(answer.value[1], integers[1])
                         /\ IsNumber(answer.value[2], integers[n])
            /\ answer.range = <<>> => answer.value = <<1, 1000>>
            /\ answer.range = <<"5", "0">> => answer.value = <<1, 50>>
            /\ answer.range = <<"2", "0", ":", "2", "0", "0", ":">> => answer.value = <<20, 200>>

RangeExamplesRun ==
    ~(answer.op = "range_min_max" /\ answer.range = <<"2", "0", ":", "2", "0", "0", ":">>)

\* C32: get_env_str(val, key, default) returns val when val is not empty,
\* otherwise the value of the environment variable key when it is set,
\* otherwise default: the command line goes before the environment, and the
\* environment before the default.
C32_CommandLineEnvDefault ==
    answer.op = "get_env_str" =>
        /\ answer.val # <<>> => answer.value = answer.val
        /\ (answer.val = <<>> /\ answer.key \in DOMAIN params.env)
              => answer.value = params.env[answer.key]
        /\ (answer.val = <<>> /\ answer.key \notin DOMAIN params.env)
              => answer.value = answer.default

\* a call with a value on the command line and another in the environment
C32_Witness ==
    /\ answer.op = "get_env_str"
    /\ answer.val # <<>>
    /\ answer.key \in DOMAIN params.env
    /\ params.env[answer.key] \notin {<<>>, answer.val}
    /\ answer.value = answer.val

\* the range the run takes is the one of the command line when there is one
RangeOfCommandLine ==
    (answer.op = "get_args" /\ answer.val # <<>>) => params.range = answer.val

(***************************************************************************)
(* The connection string: Dsn (dsn). kv is a function from the keys to     *)
(* their values, strings are sequences of characters, and their order is   *)
(* the order of their bytes.                                               *)
(***************************************************************************)
MaxSets == 3        \* the set_value calls on one Dsn

\* the characters of the keys and values, in the order of their bytes
Alphabet ==
    <<" ", "-", ".", "/", "0", "1", "2", "3", "4", "5", "6", "7", "8", "9", "=", "_",
      "a", "b", "c", "d", "e", "f", "g", "h", "i", "j", "k", "l", "m", "n", "o",
      "p", "q", "r", "s", "t", "u", "v", "w", "x", "y", "z">>

Byte(c) == CHOOSE k \in 1..Len(Alphabet) : Alphabet[k] = c

\* x < y for two Strings (Ord of str: byte by byte, a prefix first)
RECURSIVE StrLess(_, _)
StrLess(x, y) ==
    IF y = <<>> THEN FALSE
    ELSE IF x = <<>> THEN TRUE
    ELSE IF Head(x) = Head(y) THEN StrLess(Tail(x), Tail(y))
    ELSE Byte(Head(x)) < Byte(Head(y))

\* vec.sort() of a Vec<String> without duplicates
RECURSIVE VecSort(_)
VecSort(strings) ==
    IF strings = {} THEN <<>>
    ELSE LET least == CHOOSE x \in strings : \A y \in strings \ {x} : StrLess(x, y)
         IN  <<least>> \o VecSort(strings \ {least})

\* vec.join(" ")
RECURSIVE VecJoin(_)
VecJoin(vec) ==
    IF vec = <<>> THEN <<>>
    ELSE IF Len(vec) = 1 THEN vec[1]
    ELSE vec[1] \o <<" ">> \o VecJoin(Tail(vec))

SslKeys == {<<"s", "s", "l", "m", "o", "d", "e">>, <<"s", "s", "l", "c", "e", "r", "t">>, <<"s", "s", "l", "k", "e", "y">>, <<"s", "s", "l", "r", "o", "o", "t", "c", "e", "r", "t">>, <<"s", "s", "l", "c", "r", "l">>}

\* the values PGSSLMODE gives Dsn::new, "prefer" when it is not set
SslModes == {<<"d", "i", "s", "a", "b", "l", "e">>, <<"p", "r", "e", "f", "e", "r">>, <<"v", "e", "r", "i", "f", "y", "-", "f", "u", "l", "l">>}

\* Dsn::new, from an environment
DsnNew(mode) ==
    [kv |-> (<<"u", "s", "e", "r">> :> <<"m", "e">>) @@ (<<"d", "b", "n", "a", "m", "e">> :> <<"m", "e">>) @@ (<<"h", "o", "s", "t">> :> <<"/", "t", "m", "p">>)
            @@ (<<"s", "s", "l", "m", "o", "d", "e">> :> mode) @@ (<<"s", "s", "l", "c", "e", "r", "t">> :> <<"c", "r", "t">>) @@ (<<"s", "s", "l", "k", "e", "y">> :> <<"k", "e", "y">>)
            @@ (<<"s", "s", "l", "r", "o", "o", "t", "c", "e", "r", "t">> :> <<"r", "o", "o", "t">>) @@ (<<"s", "s", "l", "c", "r", "l">> :> <<"c", "r", "l">>),
     ssl_mode |-> mode]

\* Dsn::set_value without the copy of sslmode to ssl_mode
DsnSetValueOnlyInserts(self, key, value) ==
    [self EXCEPT !.kv = [k \in DOMAIN self.kv \cup {key} |->
                            IF k = key THEN value ELSE self.kv[k]]]

\* Dsn::set_value
DsnSetValue(self, key, value) ==
    [kv |-> [k \in DOMAIN self.kv \cup {key} |-> IF k = key THEN value ELSE self.kv[k]],
     ssl_mode |-> IF key = <<"s", "s", "l", "m", "o", "d", "e">> THEN value ELSE self.ssl_mode]

\* Dsn::use_tls
use_tls(self) == self.ssl_mode # <<"d", "i", "s", "a", "b", "l", "e">>

\* Dsn::verify_hostname
verify_hostname(self) == self.ssl_mode = <<"v", "e", "r", "i", "f", "y", "-", "f", "u", "l", "l">>

\* Dsn::to_string
DsnToString(self) ==
    VecJoin(VecSort({k \o <<"=">> \o self.kv[k] : k \in DOMAIN self.kv}))

\* Dsn::cleanse
DsnCleanse(self) ==
    [kv |-> [k \in DOMAIN self.kv \ SslKeys |-> self.kv[k]],
     ssl_mode |-> <<"d", "i", "s", "a", "b", "l", "e">>]

\* the set_value calls of the model: a key and a value
SetCalls ==
    { <<<<"s", "s", "l", "m", "o", "d", "e">>, <<"d", "i", "s", "a", "b", "l", "e">>>>, <<<<"s", "s", "l", "m", "o", "d", "e">>, <<"v", "e", "r", "i", "f", "y", "-", "f", "u", "l", "l">>>>, <<<<"s", "s", "l", "m", "o", "d", "e">>, <<"r", "e", "q", "u", "i", "r", "e">>>>,
      <<<<"h", "o", "s", "t">>, <<"h", "e", "r", "e">>>>, <<<<"h", "o", "s", "t", "a", "d", "d", "r">>, <<"1", "0", ".", "0", ".", "0", ".", "1">>>>, <<<<"p", "o", "r", "t">>, <<"5", "4", "3", "2">>>>,
      <<<<"s", "s", "l", "c", "e", "r", "t">>, <<"/", "c">>>>, <<<<"a", "p", "p", "l", "i", "c", "a", "t", "i", "o", "n", "_", "n", "a", "m", "e">>, <<"t", "p", "s">>>> }

InitDsn ==
    /\ \E mode \in SslModes :
          dsn = [pc |-> "new", self |-> DsnNew(mode), sets |-> 0, sslmode |-> mode]
    /\ shown = [op |-> "none"]
    /\ IdleControl
    /\ IdleSampling
    /\ IdleData
    /\ IdleFlow
    /\ IdleParams

\* d.set_value(key, value); sslmode keeps the last value given for that key
DsnSet ==
    /\ dsn.pc = "new"
    /\ dsn.sets < MaxSets
    /\ \E c \in SetCalls :
          dsn' = [dsn EXCEPT !.self = DsnSetValue(dsn.self, c[1], c[2]),
                             !.sets = @ + 1,
                             !.sslmode = IF c[1] = <<"s", "s", "l", "m", "o", "d", "e">> THEN c[2] ELSE @]
    /\ shown' = [op |-> "set_value"]
    /\ UNCHANGED othersDsn

\* d.use_tls() and d.verify_hostname()
DsnTls ==
    /\ dsn.pc = "new"
    /\ shown' = [op |-> "tls", use_tls |-> use_tls(dsn.self),
                 verify_hostname |-> verify_hostname(dsn.self)]
    /\ UNCHANGED <<dsn, othersDsn>>

\* d.to_string()
DsnShow ==
    /\ dsn.pc = "new"
    /\ shown' = [op |-> "to_string", value |-> DsnToString(dsn.self)]
    /\ UNCHANGED <<dsn, othersDsn>>

\* d.cleanse()
DsnCleansed ==
    /\ dsn.pc = "new"
    /\ shown' = [op |-> "cleanse", of |-> dsn.self, value |-> DsnCleanse(dsn.self)]
    /\ UNCHANGED <<dsn, othersDsn>>

NextDsn == DsnSet \/ DsnTls \/ DsnShow \/ DsnCleansed

SpecDsn == InitDsn /\ [][NextDsn]_vars

\* the keys of a Dsn in their order
RECURSIVE KeysInOrder(_)
KeysInOrder(keys) ==
    IF keys = {} THEN <<>>
    ELSE LET least == CHOOSE x \in keys : \A y \in keys \ {x} : StrLess(x, y)
         IN  <<least>> \o KeysInOrder(keys \ {least})

RECURSIVE Listed(_, _)
Listed(kv, keys) ==
    IF keys = <<>> THEN <<>>
    ELSE Head(keys) \o <<"=">> \o kv[Head(keys)]
            \o (IF Len(keys) = 1 THEN <<>> ELSE <<" ">> \o Listed(kv, Tail(keys)))

MaxBacklog == 2     \* the messages queued in the consumer's channel

SCALEDOWNFACTOR == 10

RoundBuckets == {0, 1}

\* ParallelSamples::new, as far as the loop looks at it
RoundNew == [buckets |-> {}, merged |-> 0]

\* parallelsamples.append(&sample)
RoundAppend(acc, bucket) ==
    [buckets |-> acc.buckets \cup {bucket}, merged |-> acc.merged + 1]

\* the test of the end of a round without a look at the accumulator
RoundSendsAlways(acc) == TRUE

\* parallelsamples.len() > 0
RoundSends(acc) == Cardinality(acc.buckets) > 0

InitRound ==
    /\ backlog = <<>>
    /\ rnd = [pc |-> "head", i |-> 0, acc |-> RoundNew]
    /\ forward = None
    /\ IdleControl
    /\ IdleSampling
    /\ IdleData
    /\ IdleSetup
    /\ IdleFanIn
    /\ IdleTable
    /\ IdleLevel

\* a worker sends a sample
RoundArrive ==
    /\ Len(backlog) < MaxBacklog
    /\ \E b \in RoundBuckets : backlog' = Append(backlog, b)
    /\ UNCHANGED <<rnd, forward, othersRound>>

\* the head of the loop: done is the flag Consumer::new made for this thread,
\* which nothing writes
RoundHead ==
    /\ rnd.pc = "head"
    /\ rnd' = [rnd EXCEPT !.pc = "recv", !.i = 0]
    /\ forward' = None
    /\ UNCHANGED <<backlog, othersRound>>

\* one rx.recv_timeout(wait) of the round: the oldest message, or a timeout
\* when there is none
RoundRecv ==
    /\ rnd.pc = "recv"
    /\ rnd.i < THREADS_PER_CONSUMER * SCALEDOWNFACTOR
    /\ IF backlog # <<>>
       THEN /\ rnd' = [rnd EXCEPT !.i = @ + 1, !.acc = RoundAppend(@, Head(backlog))]
            /\ backlog' = Tail(backlog)
       ELSE /\ rnd' = [rnd EXCEPT !.i = @ + 1]
            /\ UNCHANGED backlog
    /\ UNCHANGED <<forward, othersRound>>

\* the end of the round: the accumulator goes upstream and a new one takes
\* its place, if it holds anything
RoundEnd ==
    /\ rnd.pc = "recv"
    /\ rnd.i = THREADS_PER_CONSUMER * SCALEDOWNFACTOR
    /\ IF RoundSends(rnd.acc)
       THEN /\ forward' = Some(rnd.acc)
            /\ rnd' = [rnd EXCEPT !.pc = "head", !.acc = RoundNew]
       ELSE /\ forward' = None
            /\ rnd' = [rnd EXCEPT !.pc = "head"]
    /\ UNCHANGED <<backlog, othersRound>>

NextRound == RoundArrive \/ RoundHead \/ RoundRecv \/ RoundEnd

SpecRound == InitRound /\ [][NextRound]_vars

MaxFanIn == 3       \* the samples the workers send

\* the accumulator of consumer.rs:116 kept as it was sent
FanInAfterSendKeeps(acc) == acc

\* parallelsamples = ParallelSamples::new() after the send
FanInAfterSend(acc) == ParallelSamplesNew

InitFanIn ==
    /\ emitted = [c \in {1} |-> <<>>]
    /\ inbound = <<>>
    /\ accumulated = ParallelSamplesNew
    /\ history = EmptyBag
    /\ held = [pc |-> "head", i |-> 0, acc |-> ParallelSamplesNew]
    /\ IdleControl
    /\ IdleData
    /\ IdleSetup
    /\ IdleRound
    /\ IdleTable
    /\ IdleLevel
    /\ IdleWorker
    /\ IdleSchedule
    /\ IdleBucket
    /\ IdleWindow

\* a worker sends a sample: a ParallelSamples of one bucket
FanInEmit ==
    /\ BagCardinality(history) < MaxFanIn
    /\ \E ts \in MergeSlices, tx \in TxVals :
          LET ps == ParallelSample(ts, tx, tx * 1000000, 100000000, 1)
          IN  /\ emitted' = [emitted EXCEPT
                    ![1] = Append(@, ParallelSamplesAdd(ParallelSamplesNew, ps))]
              /\ history' = history (+) SetToBag({ps})
    /\ UNCHANGED <<inbound, accumulated, held, othersFanIn>>

\* the head of the consumer's loop, where it reads its flag
FanInHead ==
    /\ held.pc = "head"
    /\ held' = [held EXCEPT !.pc = "recv", !.i = 0]
    /\ UNCHANGED <<emitted, inbound, accumulated, history, othersFanIn>>

\* one recv_timeout of the round
FanInRecv ==
    /\ held.pc = "recv"
    /\ held.i < THREADS_PER_CONSUMER * SCALEDOWNFACTOR
    /\ IF emitted[1] # <<>>
       THEN /\ held' = [held EXCEPT
                    !.i = @ + 1,
                    !.acc = ParallelSamplesAppend(@, Head(emitted[1]))]
            /\ emitted' = [emitted EXCEPT ![1] = Tail(@)]
       ELSE /\ held' = [held EXCEPT !.i = @ + 1]
            /\ UNCHANGED emitted
    /\ UNCHANGED <<inbound, accumulated, history, othersFanIn>>

\* the end of the round
FanInEnd ==
    /\ held.pc = "recv"
    /\ held.i = THREADS_PER_CONSUMER * SCALEDOWNFACTOR
    /\ IF DOMAIN held.acc # {}
       THEN /\ inbound' = Append(inbound, held.acc)
            /\ held' = [held EXCEPT !.pc = "head", !.acc = FanInAfterSend(@)]
       ELSE /\ held' = [held EXCEPT !.pc = "head"]
            /\ UNCHANGED inbound
    /\ UNCHANGED <<emitted, accumulated, history, othersFanIn>>

\* the controller receives a message and appends it to its accumulator
FanInConsume ==
    /\ inbound # <<>>
    /\ accumulated' = ParallelSamplesAppend(accumulated, Head(inbound))
    /\ inbound' = Tail(inbound)
    /\ UNCHANGED <<emitted, history, held, othersFanIn>>

NextFanIn == FanInEmit \/ FanInHead \/ FanInRecv \/ FanInEnd \/ FanInConsume

SpecFanIn == InitFanIn /\ [][NextFanIn]_vars

\* what a ParallelSamples holds of a field for bucket t, and a channel of them
HeldIn(pss, t, field) == IF t \in DOMAIN pss THEN pss[t][field] ELSE 0

RECURSIVE HeldInAll(_, _, _)
HeldInAll(queue, t, field) ==
    IF queue = <<>> THEN 0
    ELSE HeldIn(Head(queue), t, field) + HeldInAll(Tail(queue), t, field)

\* C35: no sample is lost or counted twice on the way: at every moment and
\* for every bucket, the transactions and the sample counts the workers sent
\* are those queued in the channels plus those in the consumer's
\* accumulator plus those in the controller's accumulator; the consumer's
\* accumulator is empty whenever the consumer checks the cancellation flag.
C35_NothingLostOrTwice ==
    /\ \A t \in MergeSlices : \A field \in {"total_transactions", "num_samples"} :
          BagSum(history, InSlice(history, t), field)
              = HeldInAll(emitted[1], t, field) + HeldIn(held.acc, t, field)
                + HeldInAll(inbound, t, field) + HeldIn(accumulated, t, field)
    /\ held.pc = "head" => held.acc = ParallelSamplesNew

\* samples of one bucket are in the consumer's channel, in its accumulator
\* in the middle of a round, and in the controller's accumulator
C35_Witness ==
    /\ held.pc = "recv"
    /\ held.i < THREADS_PER_CONSUMER * SCALEDOWNFACTOR
    /\ 0 \in DOMAIN held.acc
    /\ emitted[1] # <<>>
    /\ 0 \in DOMAIN Head(emitted[1])
    /\ 0 \in DOMAIN accumulated

(***************************************************************************)
(* The table of the workers (Worker::initialize, sample).  Consumer::scaleup *)
(* spawns the workers in the order of their ids, 10 ms apart, and waits    *)
(* for none of them; every statement of a worker is a transaction of its   *)
(* own on the server.                                                      *)
(***************************************************************************)
MaxCrew == 3        \* the workers spawned

MaxUpdates == 2     \* the units of work and reconnects of one worker

\* create table if not exists pg_tps_optimizer (id oid)
TableCreate(t) == IF t.exists THEN t ELSE [exists |-> TRUE, rows |-> EmptyBag]

\* truncate table pg_tps_optimizer
TableTruncate(t) == [t EXCEPT !.rows = EmptyBag]

\* insert into pg_tps_optimizer values($1)
TableInsert(t, id) == [t EXCEPT !.rows = @ (+) SetToBag({id})]

\* update pg_tps_optimizer set id=$1 where id=$1: the rows it touches
TableUpdate(t, id) == CopiesIn(id, t.rows)

\* the table before the run: not there, or left by a run before
InitTable ==
    /\ tbl \in {[exists |-> FALSE, rows |-> EmptyBag],
                [exists |-> TRUE, rows |-> SetToBag({0, 1})]}
    /\ crew = <<>>
    /\ IdleControl
    /\ IdleSampling
    /\ IdleData
    /\ IdleSetup
    /\ IdleRound
    /\ IdleFanIn
    /\ IdleLevel

\* Consumer::scaleup spawns the next worker
TableSpawn ==
    /\ Len(crew) < MaxCrew
    /\ crew' = Append(crew, [id |-> Len(crew), pc |-> "create", steps |-> 0, touched |-> 0])
    /\ UNCHANGED <<tbl, othersTable>>

\* the next statement of initialize of worker w
TableInitialize(w) ==
    /\ w \in DOMAIN crew
    /\ \/ /\ crew[w].pc = "create"
          /\ tbl' = TableCreate(tbl)
          /\ crew' = [crew EXCEPT ![w].pc = IF crew[w].id = 0 THEN "truncate" ELSE "insert"]
       \/ /\ crew[w].pc = "truncate"
          /\ tbl' = TableTruncate(tbl)
          /\ crew' = [crew EXCEPT ![w].pc = "insert"]
       \/ /\ crew[w].pc = "insert"
          /\ tbl' = TableInsert(tbl, crew[w].id)
          /\ crew' = [crew EXCEPT ![w].pc = "run"]
    /\ UNCHANGED othersTable

\* a unit of work of worker w: the update of its row
TableSample(w) ==
    /\ w \in DOMAIN crew
    /\ crew[w].pc = "run"
    /\ crew[w].steps < MaxUpdates
    /\ crew' = [crew EXCEPT ![w].steps = @ + 1,
                            ![w].touched = TableUpdate(tbl, crew[w].id)]
    /\ UNCHANGED <<tbl, othersTable>>

\* a failed unit of work of worker w: client = self.workload.client()
TableReconnect(w) ==
    /\ w \in DOMAIN crew
    /\ crew[w].pc = "run"
    /\ crew[w].steps < MaxUpdates
    /\ crew' = [crew EXCEPT ![w].steps = @ + 1]
    /\ UNCHANGED <<tbl, othersTable>>

NextTable ==
    \/ TableSpawn
    \/ \E w \in 1..MaxCrew : TableInitialize(w)
    \/ \E w \in 1..MaxCrew : TableSample(w)
    \/ \E w \in 1..MaxCrew : TableReconnect(w)

SpecTable == InitTable /\ [][NextTable]_vars

AllInitialized == crew # <<>> /\ \A w \in DOMAIN crew : crew[w].pc = "run"

\* C37: under every interleaving of the workers' initializations, once all
\* workers have finished initializing the table holds a row for the id of
\* every running worker, so that each worker's update touches its own row.
C37_RowForEveryWorker ==
    AllInitialized =>
        \A w \in DOMAIN crew : TableUpdate(tbl, crew[w].id) >= 1

\* the statements after initialize leave the table as it is: a reconnect
\* truncates nothing and removes no row
ReconnectKeepsTable ==
    [][(\E w \in 1..MaxCrew : TableReconnect(w) \/ TableSample(w)) => tbl' = tbl]_vars

(***************************************************************************)
(* The samples on their way while the controller goes from level to level. *)
(* A worker starts a sample in the timeslice that runs and sends it when   *)
(* it has ended; the consumer thread receives the samples of its channel   *)
(* into its accumulator and sends the accumulator upstream at the end of a *)
(* round (100 receives, of which any number time out: with fewer than 100  *)
(* samples under way the count puts no limit on where a round ends); the   *)
(* controller scales up, then runs wait_stable with an accumulator and a   *)
(* window of the level: it receives what has arrived and rebuilds the      *)
(* window with as_results.  No thread waits for another, and the clock     *)
(* runs as it will.  Next to each ParallelSamples the model keeps where    *)
(* its samples are from: the timeslice they started in and the number of   *)
(* workers that ran while they were made, 0 for a sample during which a    *)
(* worker was spawned.                                                     *)
(***************************************************************************)
MaxLevel == 2       \* the levels of the schedule: 1, 2, ...

MaxBeat == 4        \* the timeslices the clock runs through

MaxUnderWay == 3    \* the samples the workers start

\* the worker count of a level: 1, 2, 3, 5, ...
LevelTarget(level) == IF level = 0 THEN 0 ELSE FibonacciValues[level]

\* the workers of the last level
LevelWorkers == 1..LevelTarget(MaxLevel)

\* the sample of a worker that started in timeslice ts
LevelSample(ts) == ParallelSample(ts, 4, 4000000, 100000000, 1)

\* let mut pss = ParallelSamples::new(); pss.add(sample.to_parallel_sample())
LevelMessage(tag) ==
    [pss |-> ParallelSamplesAdd(ParallelSamplesNew, LevelSample(tag.timeslice)),
     from |-> {tag}]

LevelEmpty == [pss |-> ParallelSamplesNew, from |-> {}]

\* acc.append(message)
LevelAppend(acc, message) ==
    [pss |-> ParallelSamplesAppend(acc.pss, message.pss),
     from |-> acc.from \cup message.from]

\* the buckets as_results makes TestResults of in timeslice current
Turned(pss, current) == {t \in DOMAIN pss : t < previous_timeslice(current)}

InitLevel ==
    /\ lvl = [pc |-> "start", level |-> 0, spawned |-> 0, started |-> 0,
              acc |-> LevelEmpty, results |-> TestResultsNew(1, 2), turned |-> {}]
    /\ beat = 1
    /\ route = [working |-> [w \in LevelWorkers |-> None], channel |-> <<>>,
                consumer |-> LevelEmpty, upstream |-> <<>>]
    /\ IdleControl
    /\ IdleSampling
    /\ IdleData
    /\ IdleSetup
    /\ IdleRound
    /\ IdleFanIn
    /\ IdleTable

\* the controller calls scaleup for the next level
LevelScaleup ==
    /\ lvl.pc \in {"start", "returned"}
    /\ lvl.level < MaxLevel
    /\ lvl' = [lvl EXCEPT !.pc = "scaleup"]
    /\ UNCHANGED <<beat, route, othersLevel>>

\* scaleup spawns a worker: a sample that runs by now is of neither level
LevelSpawn ==
    /\ lvl.pc = "scaleup"
    /\ lvl.spawned < LevelTarget(lvl.level + 1)
    /\ lvl' = [lvl EXCEPT !.spawned = @ + 1]
    /\ route' = [route EXCEPT
                    !.working = [w \in DOMAIN @ |->
                                    IF @[w] = None THEN None
                                    ELSE Some([@[w][1] EXCEPT !.made = 0])]]
    /\ UNCHANGED <<beat, othersLevel>>

\* scaleup has returned and the controller calls wait_stable, which starts
\* with a new accumulator and a new window
LevelWaitStable ==
    /\ lvl.pc = "scaleup"
    /\ lvl.spawned = LevelTarget(lvl.level + 1)
    /\ lvl' = [lvl EXCEPT !.pc = "wait", !.level = @ + 1, !.acc = LevelEmpty,
                          !.results = TestResultsNew(1, 2), !.turned = {}]
    /\ UNCHANGED <<beat, route, othersLevel>>

\* worker w starts a sample
LevelWorkerStart(w) ==
    /\ lvl.started < MaxUnderWay
    /\ w <= lvl.spawned
    /\ route.working[w] = None
    /\ route' = [route EXCEPT
                    !.working[w] = Some([timeslice |-> beat, made |-> lvl.spawned])]
    /\ lvl' = [lvl EXCEPT !.started = @ + 1]
    /\ UNCHANGED <<beat, othersLevel>>

\* worker w has ended its sample and sends it
LevelWorkerSend(w) ==
    /\ route.working[w] # None
    /\ route' = [route EXCEPT !.working[w] = None,
                              !.channel = Append(@, LevelMessage(route.working[w][1]))]
    /\ UNCHANGED <<lvl, beat, othersLevel>>

\* the consumer thread receives a sample
LevelConsumerRecv ==
    /\ route.channel # <<>>
    /\ route' = [route EXCEPT
                    !.channel = Tail(@),
                    !.consumer = LevelAppend(@, Head(route.channel))]
    /\ UNCHANGED <<lvl, beat, othersLevel>>

\* the end of a round of the consumer thread
LevelConsumerSend ==
    /\ DOMAIN route.consumer.pss # {}
    /\ route' = [route EXCEPT !.upstream = Append(@, route.consumer),
                              !.consumer = LevelEmpty]
    /\ UNCHANGED <<lvl, beat, othersLevel>>

\* wait_stable, step 1: the controller receives a message and merges it
LevelRecv ==
    /\ lvl.pc = "wait"
    /\ route.upstream # <<>>
    /\ lvl' = [lvl EXCEPT !.acc = LevelAppend(@, Head(route.upstream))]
    /\ route' = [route EXCEPT !.upstream = Tail(@)]
    /\ UNCHANGED <<beat, othersLevel>>

\* wait_stable, steps 2 to 4: the window is rebuilt from the accumulator,
\* and wait_stable returns or goes on
LevelRebuild ==
    /\ lvl.pc = "wait"
    /\ \E returns \in BOOLEAN :
          lvl' = [lvl EXCEPT !.results = as_results(lvl.acc.pss, 1, 2, beat),
                             !.turned = Turned(lvl.acc.pss, beat),
                             !.pc = IF returns THEN "returned" ELSE "wait"]
    /\ UNCHANGED <<beat, route, othersLevel>>

\* the clock passes into the next timeslice
LevelTick ==
    /\ beat < MaxBeat
    /\ beat' = beat + 1
    /\ UNCHANGED <<lvl, route, othersLevel>>

NextLevel ==
    \/ LevelScaleup
    \/ LevelSpawn
    \/ LevelWaitStable
    \/ \E w \in LevelWorkers : LevelWorkerStart(w)
    \/ \E w \in LevelWorkers : LevelWorkerSend(w)
    \/ LevelConsumerRecv
    \/ LevelConsumerSend
    \/ LevelRecv
    \/ LevelRebuild
    \/ LevelTick

SpecLevel == InitLevel /\ [][NextLevel]_vars

\* where the samples under way are from
RECURSIVE FromAll(_)
FromAll(queue) ==
    IF queue = <<>> THEN {} ELSE Head(queue).from \cup FromAll(Tail(queue))

UnderWay ==
    {route.working[w][1] : w \in {v \in LevelWorkers : route.working[v] # None}}
        \cup FromAll(route.channel) \cup route.consumer.from \cup FromAll(route.upstream)

\* C38: the window of a level is made of samples that were produced
\* while all workers of that level were running, and of no others: a sample
\* sent before the scaleup to the level or during it is in no bucket that
\* as_results turns into a TestResult of the level.
C38_OnlySamplesOfTheLevel ==
    lvl.pc \in {"wait", "returned"} =>
        \A tag \in lvl.acc.from :
            tag.timeslice \in lvl.turned => tag.made = LevelTarget(lvl.level)

\* what holds of the first level, which no level comes before
FirstLevelIsOfItsOwn ==
    lvl.level = 1 => \A tag \in lvl.acc.from : tag.made = LevelTarget(1)

\* C39: when as_results makes a TestResult of a bucket, every sample of the
\* bucket is in the controller's accumulator: none is still with a worker,
\* in a channel or in the consumer's accumulator.
C39_BucketsTurnedAreComplete ==
    \A tag \in UnderWay : tag.timeslice \notin lvl.turned

====
